---- MODULE Spec2Model ----
(***************************************************************************)
(* Autonomous-LAB-TA backend: the process runners of main.py, the          *)
(* CodeExecutor service (docker sandbox with local fallback), the error    *)
(* classifier and the ManualCodeChecker / CodeAnalyzer grading functions.  *)
(*                                                                         *)
(* Source texts, outputs and diagnostics are TLA+ strings; the string      *)
(* functions of the code (substring search, lower-casing, stripping,       *)
(* tokenising) are computed character by character.  Scores are exact      *)
(* rationals [num, den]: the code's floats are modelled without rounding.  *)
(***************************************************************************)
EXTENDS Integers, Sequences, FiniteSets, TLC

VARIABLES
    \* ---- host environment
    hostBinaries,   \* interpreter / compiler binaries found on PATH
    daemonUp,       \* the docker daemon answers requests
    docker_client,  \* CodeExecutor.docker_client is not None
    \* ---- the execution request in flight (one runner call at a time)
    pc,             \* "idle" | "compile" | "run" | "container" | "done"
    entry,          \* runner entry point of the current request
    language,       \* language of the current request
    files,          \* artifacts of the current request that exist on disk
    child,          \* the child process the runner is waiting for
    result,         \* dict returned by the runner (NoResult while pending)
    \* ---- history of the current request (observation only)
    compileStatus,  \* [status: "none" | "ok" | "failed", stderr: the compiler's]
    runStarted,     \* a run-phase child process was started
    containerRan,   \* the code was started inside a container
    exitPath,       \* which exit path produced the result
    backendDownAtCall, \* the daemon was unreachable when execute was called
    \* ---- _calculate_grade under test
    score1, score2, grades,
    \* ---- ManualCodeChecker.compare under test
    student_code, manual_code, cmp_language, report,
    \* ---- classify_error under test
    stderr_text,    \* the stderr text passed to classify_error
    error_type,     \* what classify_error returned (NoneVal before the call)
    \* ---- _check_syntax_match and _check_structure_match under test
    body1, body2,   \* the two code bodies
    code_metrics,   \* the scores returned for them (NoResult before the calls)
    \* ---- _compare_outputs under test
    stdout1, stdout2,   \* the two captured outputs
    output_score,   \* the score returned for them (NoResult before the call)
    \* ---- comparison requests: manual_check_code, CodeAnalyzer.compare_code
    request,        \* [entry, student_code, reference, language]
    response,       \* what the entry point returned (NoResult before the call)
    manual_checks,  \* rows of the manual_checks table
    \* ---- RAGService (services/rag_service.py)
    db_state,       \* the database file at db_path, see DbStates
    rag_solutions,  \* rows of the rag_solutions table, oldest first
    hint_request,   \* the arguments of the last generate_hint call
    hint_response,  \* what it returned (NoResult before the first call)
    hint_requests,  \* number of generate_hint calls so far
    init_error,     \* what RAGService.__init__ raised (NoneVal: not run)
    \* ---- two generate_hint calls running at the same time
    workers,        \* per call: its position, arguments, locals and result
    \* ---- the lab_tasks table and its two handlers (main.py)
    lab_tasks,      \* task id -> [uploaded_by, language, manual_code]
    task_response,  \* [op, task_id, status] of the last handler call
    task_requests   \* number of handler calls so far

rvars == <<hostBinaries, daemonUp, docker_client, pc, entry, language, files,
           child, result, compileStatus, runStarted, containerRan, exitPath,
           backendDownAtCall>>
gvars == <<score1, score2, grades>>
cvars == <<student_code, manual_code, cmp_language, report>>
kvars == <<stderr_text, error_type>>
mvars == <<body1, body2, code_metrics>>
ovars == <<stdout1, stdout2, output_score>>
avars == <<request, response, manual_checks>>
hvars == <<db_state, rag_solutions, hint_request, hint_response, hint_requests,
           init_error>>
wvars == <<workers>>
tvars == <<lab_tasks, task_response, task_requests>>
xvars == <<kvars, mvars, ovars, avars, hvars, wvars, tvars>>
vars  == <<rvars, gvars, cvars, xvars>>

\* ------------------------------------------------------------------------
\* Bounds of the model
\* ------------------------------------------------------------------------
MaxDen == 10        \* scores n/d are enumerated for every d in 1..MaxDen
MaxLexemes == 2     \* a generated source text is at most this many lexemes
MaxFragments == 2   \* a generated stderr text is at most this many fragments
MaxRequests == 2    \* generate_hint is called at most this many times
MaxRows == 2        \* rows in the corpus before the call under test

\* ------------------------------------------------------------------------
\* Python values
\* ------------------------------------------------------------------------
NoneVal == "<None>"                 \* Python's None
NoResult == [pending |-> TRUE]      \* the runner has not returned yet
Has(d, key) == key \in DOMAIN d     \* key in dict
Get(d, key, default) == IF key \in DOMAIN d THEN d[key] ELSE default

\* ------------------------------------------------------------------------
\* str methods, character by character
\* ------------------------------------------------------------------------
Upper == "ABCDEFGHIJKLMNOPQRSTUVWXYZ"
LowerAlpha == "abcdefghijklmnopqrstuvwxyz"
Digits == "0123456789"
Whitespace == {" ", "\n", "\t", "\r", "\f"}

CharAt(s, i) == SubSeq(s, i, i)
CharsOf(s) == {CharAt(s, i) : i \in 1..Len(s)}

\* pat in text
Contains(text, pat) ==
    \E i \in 1..(Len(text) - Len(pat) + 1) : SubSeq(text, i, i + Len(pat) - 1) = pat

\* index of the first occurrence of pat in text, 0 when there is none
Find(text, pat) ==
    LET hits == {i \in 1..(Len(text) - Len(pat) + 1) :
                     SubSeq(text, i, i + Len(pat) - 1) = pat}
    IN IF hits = {} THEN 0 ELSE CHOOSE i \in hits : \A j \in hits : i <= j

LowerChar(c) ==
    LET k == Find(Upper, c)
    IN IF Len(c) = 1 /\ k > 0 THEN CharAt(LowerAlpha, k) ELSE c

\* s.lower(), character by character (the text is halved so that long
\* bodies do not nest deeply)
RECURSIVE Lower(_)
Lower(s) ==
    IF Len(s) <= 1 THEN LowerChar(s)
    ELSE Lower(SubSeq(s, 1, Len(s) \div 2))
         \o Lower(SubSeq(s, Len(s) \div 2 + 1, Len(s)))

RECURSIVE LStrip(_)
LStrip(s) == IF s # "" /\ Head(s) \in Whitespace THEN LStrip(Tail(s)) ELSE s

RECURSIVE RStrip(_)
RStrip(s) ==
    IF s # "" /\ CharAt(s, Len(s)) \in Whitespace
    THEN RStrip(SubSeq(s, 1, Len(s) - 1)) ELSE s

Strip(s) == RStrip(LStrip(s))

\* text.count(pat): occurrences of pat, not overlapping, left to right
RECURSIVE Count(_, _)
Count(text, pat) ==
    LET k == Find(text, pat)
    IN IF pat = "" \/ k = 0 THEN 0
       ELSE 1 + Count(SubSeq(text, k + Len(pat), Len(text)), pat)

\* s.split("\n")
RECURSIVE SplitLines(_)
SplitLines(s) ==
    LET k == Find(s, "\n")
    IN IF k = 0 THEN <<s>>
       ELSE <<SubSeq(s, 1, k - 1)>> \o SplitLines(SubSeq(s, k + 1, Len(s)))

\* '\n'.join(parts)
RECURSIVE JoinLines(_)
JoinLines(parts) ==
    IF parts = <<>> THEN ""
    ELSE IF Len(parts) = 1 THEN parts[1]
    ELSE parts[1] \o "\n" \o JoinLines(Tail(parts))

\* s.split(sep)[0]
SplitFirst(s, sep) ==
    LET k == Find(s, sep) IN IF k = 0 THEN s ELSE SubSeq(s, 1, k - 1)

\* ------------------------------------------------------------------------
\* classify_error (main.py)
\* ------------------------------------------------------------------------
\* (variant of classify_error: the SyntaxError rule is tried before the
\* IndexError rule)
classify_error_syntaxFirst(error_message) ==
    IF error_message = "" THEN "UnknownError"
    ELSE LET error_lower == Lower(error_message)
             has(p) == Contains(error_lower, p)
         IN
         IF has("syntaxerror") THEN "SyntaxError"
         ELSE IF has("indexerror") \/ has("arrayindexoutofbounds") THEN "IndexError"
         ELSE IF has("nameerror") \/ has("cannot find symbol") THEN "NameError"
         ELSE IF has("typeerror") THEN "TypeError"
         ELSE IF has("indentationerror") THEN "IndentationError"
         ELSE IF has("zerodivisionerror") \/ has("divide by zero") THEN "ZeroDivisionError"
         ELSE IF has("keyerror") THEN "KeyError"
         ELSE IF has("attributeerror") THEN "AttributeError"
         ELSE IF has("valueerror") THEN "ValueError"
         ELSE IF has("timeout") THEN "TimeoutError"
         ELSE IF has("off by one") \/ (has("index") /\ has("range")) THEN "off_by_one"
         ELSE IF has("missing return") \/ has("does not return") THEN "missing_return"
         ELSE IF has("infinite loop") \/ has("while true") THEN "infinite_loop"
         ELSE LET first_line == SplitFirst(Strip(error_message), "\n")
              IN IF Contains(first_line, ":")
                 THEN SplitFirst(first_line, ":")
                 ELSE "RuntimeError"

classify_error(error_message) ==
    IF error_message = "" THEN "UnknownError"
    ELSE LET error_lower == Lower(error_message)
             has(p) == Contains(error_lower, p)
         IN
         IF has("indexerror") \/ has("arrayindexoutofbounds") THEN "IndexError"
         ELSE IF has("syntaxerror") THEN "SyntaxError"
         ELSE IF has("nameerror") \/ has("cannot find symbol") THEN "NameError"
         ELSE IF has("typeerror") THEN "TypeError"
         ELSE IF has("indentationerror") THEN "IndentationError"
         ELSE IF has("zerodivisionerror") \/ has("divide by zero") THEN "ZeroDivisionError"
         ELSE IF has("keyerror") THEN "KeyError"
         ELSE IF has("attributeerror") THEN "AttributeError"
         ELSE IF has("valueerror") THEN "ValueError"
         ELSE IF has("timeout") THEN "TimeoutError"
         ELSE IF has("off by one") \/ (has("index") /\ has("range")) THEN "off_by_one"
         ELSE IF has("missing return") \/ has("does not return") THEN "missing_return"
         ELSE IF has("infinite loop") \/ has("while true") THEN "infinite_loop"
         ELSE LET first_line == SplitFirst(Strip(error_message), "\n")
              IN IF Contains(first_line, ":")
                 THEN SplitFirst(first_line, ":")
                 ELSE "RuntimeError"

\* ------------------------------------------------------------------------
\* Process runners: execute_python_code, execute_javascript_code (main.py)
\* and CodeExecutor (services/code_executor.py)
\* ------------------------------------------------------------------------
Binaries == {"python", "node", "javac", "java", "gcc"}
Languages == {"python", "java", "javascript", "c", "ruby"}
StdoutSamples == {"", "6\n"}
StderrSamples == {"", "IndexError: list index out of range", "Segmentation fault"}

NotCompiled == [status |-> "none", stderr |-> ""]
NoChild == [phase |-> "none", timeout |-> FALSE, hangs |-> FALSE]

\* str(e) of the FileNotFoundError subprocess.run raises for a missing binary
FileNotFoundMsg(bin) == "[Errno 2] No such file or directory: '" \o bin \o "'"

\* ---- result dicts of execute_python_code
py_result(returncode, stdout, stderr) ==
    [success |-> returncode = 0,
     output |-> stdout,
     error |-> IF returncode # 0 THEN stderr ELSE NoneVal,
     error_type |-> IF returncode # 0 THEN classify_error(stderr) ELSE NoneVal,
     return_code |-> returncode]

py_timeout ==
    [success |-> FALSE, error |-> "Execution timed out after 5 seconds",
     error_type |-> "TimeoutError", output |-> ""]

py_exception(msg) ==
    [success |-> FALSE, error |-> msg, error_type |-> "ExecutionError", output |-> ""]

\* ---- result dicts of execute_javascript_code
js_result(returncode, stdout, stderr) ==
    [success |-> returncode = 0,
     output |-> stdout,
     error |-> IF returncode # 0 THEN stderr ELSE NoneVal,
     error_type |-> IF returncode # 0 THEN classify_error(stderr) ELSE NoneVal]

js_missing ==
    [success |-> FALSE,
     error |-> "Node.js is not installed. Please install Node.js to run JavaScript code.",
     error_type |-> "RuntimeMissing", output |-> ""]

js_timeout == py_timeout

js_exception(msg) == py_exception(msg)

\* ---- result dicts of CodeExecutor._execute_local
local_result(returncode, stdout, stderr) ==
    [success |-> returncode = 0,
     output |-> stdout,
     error |-> IF returncode # 0 THEN stderr ELSE "",
     sandboxed |-> FALSE]

local_compile_failed(stderr) ==
    [success |-> FALSE, error |-> stderr, sandboxed |-> FALSE]

local_timeout ==
    [success |-> FALSE, error |-> "Execution timed out (10 seconds)", sandboxed |-> FALSE]

local_exception(msg) ==
    [success |-> FALSE, error |-> msg, sandboxed |-> FALSE]

unsupported_language(lang) ==
    [success |-> FALSE, error |-> "Unsupported language: " \o lang, sandboxed |-> FALSE]

\* ---- result dicts of CodeExecutor._execute_docker
docker_result(stdout) ==
    [success |-> TRUE, output |-> stdout, sandboxed |-> TRUE]

docker_container_error(stderr) ==
    [success |-> FALSE, error |-> stderr, sandboxed |-> TRUE]

docker_exception(msg) ==
    [success |-> FALSE, error |-> "Docker execution failed: " \o msg, sandboxed |-> TRUE]

image_map == {"python", "java", "javascript", "c"}

\* the finally block of _execute_local: os.unlink(temp_file), then the
\* artifact named after temp_file; a failing unlink skips the rest
Cleanup(lang, fs) ==
    IF "temp_file" \notin fs THEN fs
    ELSE (fs \ {"temp_file"}) \
         (IF lang = "java" THEN {"class_file"}
          ELSE IF lang = "c" THEN {"exe_file"} ELSE {})

\* what remains on disk when a main.py runner returns: os.unlink(temp_file)
\* is reached only after subprocess.run returned
MainCleanup(path, fs) ==
    IF path \in {"normal", "nonzero"} THEN fs \ {"temp_file"} ELSE fs

\* the runner returns res
Return(res, path, remaining) ==
    /\ pc' = "done"
    /\ result' = res
    /\ exitPath' = path
    /\ files' = remaining
    /\ child' = NoChild

\* a runner is entered
Begin(e, lang) ==
    /\ pc \in {"idle", "done"}
    /\ entry' = e
    /\ language' = lang
    /\ compileStatus' = NotCompiled
    /\ backendDownAtCall' = ~daemonUp

\* subprocess.run found the binary: the child runs and the runner waits for
\* it; the child either exits by itself or never does (hangs)
Spawn(phase, bounded, fs) ==
    \E h \in BOOLEAN :
        /\ pc' = phase
        /\ child' = [phase |-> phase, timeout |-> bounded, hangs |-> h]
        /\ files' = fs
        /\ result' = NoResult
        /\ exitPath' = "none"

\* execute_python_code up to subprocess.run(['python', temp_file], timeout=timeout)
execute_python_code ==
    /\ Begin("execute_python_code", "python")
    /\ containerRan' = FALSE
    /\ IF "python" \in hostBinaries
       THEN Spawn("run", TRUE, {"temp_file"}) /\ runStarted' = TRUE
       ELSE /\ Return(py_exception(FileNotFoundMsg("python")), "missing_binary",
                      MainCleanup("missing_binary", {"temp_file"}))
            /\ runStarted' = FALSE
    /\ UNCHANGED <<hostBinaries, daemonUp, docker_client, gvars, cvars, xvars>>

\* execute_javascript_code up to subprocess.run(['node', temp_file], timeout=timeout)
execute_javascript_code ==
    /\ Begin("execute_javascript_code", "javascript")
    /\ containerRan' = FALSE
    /\ IF "node" \in hostBinaries
       THEN Spawn("run", TRUE, {"temp_file"}) /\ runStarted' = TRUE
       ELSE /\ Return(js_missing, "missing_binary",
                      MainCleanup("missing_binary", {"temp_file"}))
            /\ runStarted' = FALSE
    /\ UNCHANGED <<hostBinaries, daemonUp, docker_client, gvars, cvars, xvars>>

\* first command of _execute_local for each language, and whether
\* subprocess.run is given a timeout for it
FirstBinary(lang) ==
    IF lang = "python" THEN "python"
    ELSE IF lang = "java" THEN "javac"
    ELSE IF lang = "javascript" THEN "node"
    ELSE "gcc"

Compiled == {"java", "c"}

\* CodeExecutor._execute_local up to its first subprocess.run
\* (tempfile.NamedTemporaryFile has written temp_file)
_execute_local(lang) ==
    /\ containerRan' = FALSE
    /\ IF lang \notin {"python", "java", "javascript", "c"}
       THEN /\ Return(unsupported_language(lang), "unsupported",
                      Cleanup(lang, {"temp_file"}))
            /\ runStarted' = FALSE
       ELSE IF FirstBinary(lang) \notin hostBinaries
       THEN /\ Return(local_exception(FileNotFoundMsg(FirstBinary(lang))),
                      "missing_binary", Cleanup(lang, {"temp_file"}))
            /\ runStarted' = FALSE
       ELSE IF lang \in Compiled
       THEN Spawn("compile", FALSE, {"temp_file"}) /\ runStarted' = FALSE
       ELSE Spawn("run", TRUE, {"temp_file"}) /\ runStarted' = TRUE

\* CodeExecutor._execute_docker up to docker_client.containers.run
_execute_docker(lang) ==
    /\ runStarted' = FALSE
    /\ IF Lower(lang) \notin image_map
       THEN /\ Return(unsupported_language(lang), "unsupported", {})
            /\ containerRan' = FALSE
       ELSE IF ~daemonUp
       THEN \* containers.run raises: the TemporaryDirectory is removed on the way out
            /\ Return(docker_exception("daemon unreachable"), "exception", {})
            /\ containerRan' = FALSE
       ELSE /\ pc' = "container"
            /\ child' = NoChild
            /\ files' = {"tmpdir"}
            /\ result' = NoResult
            /\ exitPath' = "none"
            /\ containerRan' = TRUE

\* CodeExecutor.execute
execute(lang, use_sandbox) ==
    /\ Begin("CodeExecutor.execute", lang)
    /\ IF use_sandbox /\ docker_client
       THEN _execute_docker(lang)
       ELSE _execute_local(lang)
    /\ UNCHANGED <<hostBinaries, daemonUp, docker_client, gvars, cvars, xvars>>

CodeExecutor_execute == \E lang \in Languages, use_sandbox \in BOOLEAN : execute(lang, use_sandbox)

\* result dict of the entry point for each way its child can end
ExitResult(e, returncode, stdout, stderr) ==
    IF e = "execute_python_code" THEN py_result(returncode, stdout, stderr)
    ELSE IF e = "execute_javascript_code" THEN js_result(returncode, stdout, stderr)
    ELSE local_result(returncode, stdout, stderr)

TimeoutResult(e) ==
    IF e = "execute_python_code" THEN py_timeout
    ELSE IF e = "execute_javascript_code" THEN js_timeout
    ELSE local_timeout

\* files left when the entry point returns along path
Remaining(e, lang, path, fs) ==
    IF e = "CodeExecutor.execute" THEN Cleanup(lang, fs) ELSE MainCleanup(path, fs)

\* the file the compiler writes next to temp_file: gcc is told temp_file.out;
\* javac names the class file after the class the source declares, which is
\* temp_file's stem only by coincidence ('Main' is what the run phase loads)
CompilerOutputs(lang) ==
    IF lang = "java" THEN {"class_file", "Main.class"} ELSE {"exe_file"}

\* (variant of CompileFailed: only a negative status, a compiler killed by a
\* signal, counts as a failed compilation)
CompileFailed_signalOnly(returncode) == returncode < 0

\* if compile_result.returncode != 0: return {...}
CompileFailed(returncode) == returncode # 0

\* _execute_local, compiled languages: the compile child exited
CompileExits ==
    /\ pc = "compile"
    /\ ~child.hangs
    /\ \E returncode \in {0, 1}, stderr \in StderrSamples :
        /\ compileStatus' = [status |-> IF returncode = 0 THEN "ok" ELSE "failed",
                             stderr |-> stderr]
        /\ IF CompileFailed(returncode)
           THEN
             /\ Return(local_compile_failed(stderr), "compile_failed",
                       Cleanup(language, files))
             /\ runStarted' = FALSE
           ELSE
             /\ \E artifact \in CompilerOutputs(language) :
                  IF language = "java" /\ "java" \notin hostBinaries
                  THEN /\ Return(local_exception(FileNotFoundMsg("java")),
                                 "missing_binary",
                                 Cleanup(language, files \cup {artifact}))
                       /\ runStarted' = FALSE
                  ELSE /\ Spawn("run", TRUE, files \cup {artifact})
                       /\ runStarted' = TRUE
    /\ UNCHANGED <<hostBinaries, daemonUp, docker_client, entry, language,
                   containerRan, backendDownAtCall, gvars, cvars, xvars>>

\* the run child exited by itself within the timeout
RunExits ==
    /\ pc = "run"
    /\ ~child.hangs
    /\ \E returncode \in {0, 1}, stdout \in StdoutSamples, stderr \in StderrSamples :
        LET path == IF returncode = 0 THEN "normal" ELSE "nonzero"
        IN Return(ExitResult(entry, returncode, stdout, stderr), path,
                  Remaining(entry, language, path, files))
    /\ UNCHANGED <<hostBinaries, daemonUp, docker_client, entry, language,
                   compileStatus, runStarted, containerRan, backendDownAtCall,
                   gvars, cvars, xvars>>

\* subprocess.run(..., timeout=t): the child is still running after t seconds;
\* subprocess.run kills it and raises TimeoutExpired, which the runner catches
TimeoutExpired ==
    /\ pc \in {"compile", "run"}
    /\ child.hangs
    /\ child.timeout
    /\ Return(TimeoutResult(entry), "timeout",
              Remaining(entry, language, "timeout", files))
    /\ UNCHANGED <<hostBinaries, daemonUp, docker_client, entry, language,
                   compileStatus, runStarted, containerRan, backendDownAtCall,
                   gvars, cvars, xvars>>

\* _execute_docker: containers.run returned or raised
ContainerExits ==
    /\ pc = "container"
    /\ \/ \E stdout \in StdoutSamples :
            Return(docker_result(stdout), "normal", {})
       \/ \E stderr \in StderrSamples :
            Return(docker_container_error(stderr), "nonzero", {})
       \/ Return(docker_exception("APIError"), "exception", {})
    /\ UNCHANGED <<hostBinaries, daemonUp, docker_client, entry, language,
                   compileStatus, runStarted, containerRan, backendDownAtCall,
                   gvars, cvars, xvars>>

\* the docker daemon stops or starts while the service is running
DaemonStops ==
    /\ daemonUp
    /\ daemonUp' = FALSE
    /\ UNCHANGED <<hostBinaries, docker_client, pc, entry, language, files, child,
                   result, compileStatus, runStarted, containerRan, exitPath,
                   backendDownAtCall, gvars, cvars, xvars>>

DaemonStarts ==
    /\ ~daemonUp
    /\ daemonUp' = TRUE
    /\ UNCHANGED <<hostBinaries, docker_client, pc, entry, language, files, child,
                   result, compileStatus, runStarted, containerRan, exitPath,
                   backendDownAtCall, gvars, cvars, xvars>>

\* ------------------------------------------------------------------------
\* Scores: exact rationals num/den with den > 0
\* ------------------------------------------------------------------------
Frac(n, d) == [num |-> n, den |-> d]
GeQ(a, b) == a.num * b.den >= b.num * a.den
LtQ(a, b) == a.num * b.den < b.num * a.den
EqQ(a, b) == a.num * b.den = b.num * a.den
RECURSIVE GCD(_, _)
GCD(x, y) == IF y = 0 THEN x ELSE GCD(y, x % y)
Abs(x) == IF x >= 0 THEN x ELSE 0 - x
Reduced(n, d) == LET g == GCD(Abs(n), d) IN Frac(n \div g, d \div g)
AddQ(a, b) == Reduced(a.num * b.den + b.num * a.den, a.den * b.den)
MulQ(a, b) == Reduced(a.num * b.num, a.den * b.den)
InUnit(a) == a.den > 0 /\ a.num >= 0 /\ a.num <= a.den
Max2(x, y) == IF x >= y THEN x ELSE y
Min2(x, y) == IF x <= y THEN x ELSE y

\* ------------------------------------------------------------------------
\* _calculate_grade (ManualCodeChecker in main.py, CodeAnalyzer in
\* services/code_analyzer.py)
\* ------------------------------------------------------------------------
\* (variant of ManualCodeChecker_calculate_grade: the A boundary is open)
ManualCodeChecker_calculate_grade_openA(score) ==
    IF ~GeQ(Frac(9, 10), score) THEN "A"
    ELSE IF GeQ(score, Frac(8, 10)) THEN "B"
    ELSE IF GeQ(score, Frac(7, 10)) THEN "C"
    ELSE IF GeQ(score, Frac(6, 10)) THEN "D"
    ELSE "F"

ManualCodeChecker_calculate_grade(score) ==
    IF GeQ(score, Frac(9, 10)) THEN "A"
    ELSE IF GeQ(score, Frac(8, 10)) THEN "B"
    ELSE IF GeQ(score, Frac(7, 10)) THEN "C"
    ELSE IF GeQ(score, Frac(6, 10)) THEN "D"
    ELSE "F"

CodeAnalyzer_calculate_grade(similarity) ==
    IF GeQ(similarity, Frac(9, 10)) THEN "A"
    ELSE IF GeQ(similarity, Frac(8, 10)) THEN "B"
    ELSE IF GeQ(similarity, Frac(7, 10)) THEN "C"
    ELSE IF GeQ(similarity, Frac(6, 10)) THEN "D"
    ELSE "F"

NoGrades == [applied |-> FALSE, m1 |-> "", m2 |-> "", a1 |-> "", a2 |-> ""]

\* both implementations are applied to two scores
CalculateGrades ==
    /\ ~grades.applied
    /\ grades' = [applied |-> TRUE,
                  m1 |-> ManualCodeChecker_calculate_grade(score1),
                  m2 |-> ManualCodeChecker_calculate_grade(score2),
                  a1 |-> CodeAnalyzer_calculate_grade(score1),
                  a2 |-> CodeAnalyzer_calculate_grade(score2)]
    /\ UNCHANGED <<score1, score2, rvars, cvars, xvars>>

\* the scores tried: every n/d with d up to MaxDen, from just below 0 to
\* just above 1
Scores == {Frac(n, d) : n \in (0 - 1)..(MaxDen + 1), d \in 1..MaxDen}

GradeInit ==
    /\ score1 \in Scores
    /\ score2 \in Scores
    /\ grades = NoGrades

\* ------------------------------------------------------------------------
\* ManualCodeChecker (main.py): the four metrics and compare
\* ------------------------------------------------------------------------
WordChars == CharsOf(LowerAlpha) \cup CharsOf(Upper) \cup CharsOf(Digits) \cup {"_"}

\* re.sub(r'#.*$', '', code, flags=re.MULTILINE)
\* whether a scan that is inside a comment or not before s is inside one
\* after s: a # since the last line end
CommentOpenAfter(s, inComment) ==
    LET ends == {i \in 1..Len(s) : CharAt(s, i) = "\n"}
        last == IF ends = {} THEN 0 ELSE CHOOSE i \in ends : \A j \in ends : j <= i
    IN IF last = 0 THEN inComment \/ Contains(s, "#")
       ELSE Contains(SubSeq(s, last + 1, Len(s)), "#")

RECURSIVE StripComments(_, _)
StripComments(s, inComment) ==
    IF s = "" THEN ""
    ELSE IF Len(s) = 1
    THEN (IF s = "\n" THEN "\n" ELSE IF inComment \/ s = "#" THEN "" ELSE s)
    ELSE LET left == SubSeq(s, 1, Len(s) \div 2)
         IN StripComments(left, inComment)
            \o StripComments(SubSeq(s, Len(s) \div 2 + 1, Len(s)),
                             CommentOpenAfter(left, inComment))

\* re.sub(r'\s+', ' ', code)
RECURSIVE CollapseWhitespace(_, _)
CollapseWhitespace(s, inRun) ==
    IF s = "" THEN ""
    ELSE IF Len(s) = 1
    THEN (IF s \in Whitespace THEN (IF inRun THEN "" ELSE " ") ELSE s)
    ELSE LET left == SubSeq(s, 1, Len(s) \div 2)
         IN CollapseWhitespace(left, inRun)
            \o CollapseWhitespace(SubSeq(s, Len(s) \div 2 + 1, Len(s)),
                                  CharAt(left, Len(left)) \in Whitespace)

\* re.sub(r'"[^"]*"', '""', code), and the same for the quote q = '
RECURSIVE BlankStrings(_, _)
BlankStrings(s, q) ==
    LET open == Find(s, q)
        rest == SubSeq(s, open + 1, Len(s))
        close == Find(rest, q)
    IN IF open = 0 \/ close = 0 THEN s
       ELSE SubSeq(s, 1, open - 1) \o q \o q
            \o BlankStrings(SubSeq(rest, close + 1, Len(rest)), q)

_normalize_code(code) ==
    Lower(Strip(BlankStrings(BlankStrings(
        CollapseWhitespace(StripComments(code, FALSE), FALSE), "\""), "'")))

\* the positions at which a maximal run of word characters starts, and the
\* run that starts at i
RunStarts(s) ==
    {i \in 1..Len(s) : /\ CharAt(s, i) \in WordChars
                       /\ (i = 1 \/ CharAt(s, i - 1) \notin WordChars)}
RunAt(s, i) ==
    LET stops == {j \in i..Len(s) : j = Len(s) \/ CharAt(s, j + 1) \notin WordChars}
    IN SubSeq(s, i, CHOOSE j \in stops : \A k \in stops : j <= k)

\* set(re.findall(r'\b\w+\b', s)): the maximal runs of word characters of
\* cur followed by s
TokensFrom(s, cur) == {RunAt(cur \o s, i) : i \in RunStarts(cur \o s)}

_check_syntax_match(code1, code2) ==
    LET set1 == TokensFrom(_normalize_code(code1), "")
        set2 == TokensFrom(_normalize_code(code2), "")
        intersection == Cardinality(set1 \cap set2)
        union == Cardinality(set1 \cup set2)
    IN IF set1 = {} \/ set2 = {} THEN Frac(0, 1)
       ELSE IF union > 0 THEN Frac(intersection, union) ELSE Frac(0, 1)

elements == {"def ", "if ", "for ", "while ", "return ", "import ", "from ", "class "}

\* sum(1 for elem in elements if elem in code)
ElementCount(code) == Cardinality({elem \in elements : Contains(code, elem)})

\* (variant of _check_structure_match: the difference is divided by the
\* smaller count)
_check_structure_match_minCount(code1, code2) ==
    LET count1 == ElementCount(code1)
        count2 == ElementCount(code2)
        diff == Abs(count1 - count2)
        max_count == Max2(Min2(count1, count2), 1)
    IN IF count1 = 0 /\ count2 = 0 THEN Frac(1, 1)
       ELSE Frac(max_count - diff, max_count)

_check_structure_match(code1, code2) ==
    LET count1 == ElementCount(code1)
        count2 == ElementCount(code2)
        diff == Abs(count1 - count2)
        max_count == Max2(Max2(count1, count2), 1)
    IN IF count1 = 0 /\ count2 = 0 THEN Frac(1, 1)
       ELSE Frac(max_count - diff, max_count)

logic_indicators(lang) ==
    IF lang = "python"
    THEN {"def ", "return ", "for ", "while ", "if ", "else ", "elif ", "in ",
          "range(", "len("}
    ELSE IF lang = "javascript"
    THEN {"function ", "return ", "for ", "while ", "if ", "else ", "const ",
          "let ", "var "}
    ELSE IF lang = "java"
    THEN {"public ", "private ", "return ", "for ", "while ", "if ", "else ",
          "class ", "void "}
    ELSE {}

\* 0.1 for an indicator in both bodies, 0.05 for one in exactly one of them,
\* counted in twentieths; min(score, 1.0)
_check_logic_match(student, manual, lang) ==
    LET indicators == logic_indicators(lang)
        both == {ind \in indicators : Contains(student, ind) /\ Contains(manual, ind)}
        one == {ind \in indicators : Contains(student, ind) # Contains(manual, ind)}
        twentieths == 2 * Cardinality(both) + Cardinality(one)
    IN Frac(Min2(twentieths, 20), 20)

\* length of the leading run of digits of s
RECURSIVE DigitRun(_)
DigitRun(s) ==
    IF s # "" /\ Head(s) \in CharsOf(Digits) THEN 1 + DigitRun(Tail(s)) ELSE 0

\* re.findall(r'\d+\.?\d*', s)
RECURSIVE NumericTokens(_)
NumericTokens(s) ==
    IF s = "" THEN <<>>
    ELSE IF Head(s) \notin CharsOf(Digits) THEN NumericTokens(Tail(s))
    ELSE LET n1 == DigitRun(s)
             n2 == IF n1 < Len(s) /\ CharAt(s, n1 + 1) = "." THEN n1 + 1 ELSE n1
             n3 == n2 + DigitRun(SubSeq(s, n2 + 1, Len(s)))
         IN <<SubSeq(s, 1, n3)>> \o NumericTokens(SubSeq(s, n3 + 1, Len(s)))

\* difflib.SequenceMatcher(None, a, b): total size of the matching blocks
\* (longest common block, earliest in a then in b, then both sides of it)
RECURSIVE MatchingChars(_, _)
MatchingChars(a, b) ==
    LET blocks == {m \in (1..Len(a)) \X (1..Len(b)) \X (1..Min2(Len(a), Len(b))) :
                      /\ m[1] + m[3] - 1 <= Len(a)
                      /\ m[2] + m[3] - 1 <= Len(b)
                      /\ SubSeq(a, m[1], m[1] + m[3] - 1) = SubSeq(b, m[2], m[2] + m[3] - 1)}
    IN IF blocks = {} THEN 0
       ELSE LET best == CHOOSE m \in blocks : \A n \in blocks :
                            \/ m[3] > n[3]
                            \/ m[3] = n[3] /\ m[1] < n[1]
                            \/ m[3] = n[3] /\ m[1] = n[1] /\ m[2] <= n[2]
            IN best[3]
               + MatchingChars(SubSeq(a, 1, best[1] - 1), SubSeq(b, 1, best[2] - 1))
               + MatchingChars(SubSeq(a, best[1] + best[3], Len(a)),
                               SubSeq(b, best[2] + best[3], Len(b)))

\* SequenceMatcher.ratio(): 2*M/T, and 1.0 when both are empty
SequenceRatio(a, b) ==
    IF Len(a) + Len(b) = 0 THEN Frac(1, 1)
    ELSE Frac(2 * MatchingChars(a, b), Len(a) + Len(b))

_compare_outputs(output1, output2) ==
    IF output1 = "" \/ output2 = "" THEN Frac(0, 1)
    ELSE LET output1_clean == Lower(Strip(output1))
             output2_clean == Lower(Strip(output2))
             nums1 == NumericTokens(output1_clean)
             nums2 == NumericTokens(output2_clean)
         IN IF output1_clean = output2_clean THEN Frac(1, 1)
            ELSE IF nums1 # <<>> /\ nums2 # <<>> /\ nums1 = nums2 THEN Frac(8, 10)
            ELSE SequenceRatio(output1_clean, output2_clean)

\* re.findall(r'\b([a-z_][a-z0-9_]*)\b', s) for a lower-case s: the maximal
\* runs of word characters that do not start with a digit, in order
Identifiers(s, cur) ==
    LET text == cur \o s
        runs == RunStarts(text)
        digits == CharsOf(Digits)
        starts == SelectSeq([i \in 1..Len(text) |-> i],
                            LAMBDA i : i \in runs /\ CharAt(text, i) \notin digits)
    IN [k \in 1..Len(starts) |-> RunAt(text, starts[k])]

\* ', '.join(names)
RECURSIVE JoinComma(_)
JoinComma(names) ==
    IF names = <<>> THEN ""
    ELSE IF Len(names) = 1 THEN names[1]
    ELSE names[1] \o ", " \o JoinComma(Tail(names))

\* (variant of _find_errors: the placeholder rule wants pass on a line of
\* its own)
_find_errors_passOnOwnLine(student, manual, lang) ==
    (IF Contains(student, "\n    pass") /\ Contains(student, "def ")
        /\ ~Contains(manual, "pass")
     THEN <<"Function not implemented (using 'pass')">> ELSE <<>>)
    \o (IF Contains(manual, "def ") /\ ~Contains(student, "def ")
        THEN <<"Missing function definition">> ELSE <<>>)
    \o (IF Contains(manual, "return ") /\ ~Contains(student, "return ")
        THEN <<"Missing return statement">> ELSE <<>>)
    \o (LET single_letter_vars ==
                SelectSeq(Identifiers(Lower(student), ""),
                          LAMBDA v : Len(v) = 1 /\ v \notin {"i", "j", "k", "x", "y", "z"})
        IN IF lang = "python" /\ single_letter_vars # <<>>
           THEN <<"Poor variable naming: " \o JoinComma(single_letter_vars)>>
           ELSE <<>>)
    \o (IF Contains(student, "range(1,") /\ Contains(manual, "range(0,")
        THEN <<"Potential off-by-one error in range">> ELSE <<>>)

\* _find_errors
_find_errors(student, manual, lang) ==
    (IF Contains(student, "pass") /\ Contains(student, "def ")
        /\ ~Contains(manual, "pass")
     THEN <<"Function not implemented (using 'pass')">> ELSE <<>>)
    \o (IF Contains(manual, "def ") /\ ~Contains(student, "def ")
        THEN <<"Missing function definition">> ELSE <<>>)
    \o (IF Contains(manual, "return ") /\ ~Contains(student, "return ")
        THEN <<"Missing return statement">> ELSE <<>>)
    \o (LET single_letter_vars ==
                SelectSeq(Identifiers(Lower(student), ""),
                          LAMBDA v : Len(v) = 1 /\ v \notin {"i", "j", "k", "x", "y", "z"})
        IN IF lang = "python" /\ single_letter_vars # <<>>
           THEN <<"Poor variable naming: " \o JoinComma(single_letter_vars)>>
           ELSE <<>>)
    \o (IF Contains(student, "range(1,") /\ Contains(manual, "range(0,")
        THEN <<"Potential off-by-one error in range">> ELSE <<>>)

\* lines[i] if i < len(lines) else ""
LineAt(lines, i) == IF i <= Len(lines) THEN lines[i] ELSE ""

\* the entry _find_code_differences appends for position i
Difference(i, line1, line2) ==
    [line |-> i, student |-> line1, manual |-> line2,
     type |-> IF line1 # "" /\ line2 # "" THEN "different"
              ELSE IF line1 = "" THEN "missing" ELSE "extra"]

\* (variant of _find_code_differences: the list is not cut at 20)
_find_code_differences_uncut(code1, code2) ==
    LET lines1 == SplitLines(code1)
        lines2 == SplitLines(code2)
        max_lines == Max2(Len(lines1), Len(lines2))
        positions == SelectSeq([i \in 1..max_lines |-> i],
                               LAMBDA i : LineAt(lines1, i) # LineAt(lines2, i))
    IN [k \in 1..Len(positions) |->
           Difference(positions[k], LineAt(lines1, positions[k]),
                      LineAt(lines2, positions[k]))]

\* _find_code_differences
_find_code_differences(code1, code2) ==
    LET lines1 == SplitLines(code1)
        lines2 == SplitLines(code2)
        max_lines == Max2(Len(lines1), Len(lines2))
        positions == SelectSeq([i \in 1..max_lines |-> i],
                               LAMBDA i : LineAt(lines1, i) # LineAt(lines2, i))
        differences == [k \in 1..Len(positions) |->
                           Difference(positions[k], LineAt(lines1, positions[k]),
                                      LineAt(lines2, positions[k]))]
    IN SubSeq(differences, 1, Min2(20, Len(differences)))

\* round(q, 2) for q >= 0, in hundredths: the nearest hundredth. A q half-way
\* between two hundredths is a float only when it is a multiple of 1/8
\* (.125, .375, .625, .875) and then goes to the even hundredth; any other
\* half-way q is held as a float slightly above it (half_up) or below it
Round2(q, half_up) ==
    LET scaled == 100 * q.num
        lower == scaled \div q.den
        twice == 2 * (scaled % q.den)
        up == IF (8 * q.num) % q.den = 0 THEN lower % 2 = 1 ELSE half_up
    IN IF twice > q.den \/ (twice = q.den /\ up)
       THEN Frac(lower + 1, 100) ELSE Frac(lower, 100)

\* sum of the four scores, each times 0.25
WeightedSum(syntax, structure, logic, output) ==
    AddQ(AddQ(MulQ(syntax, Frac(1, 4)), MulQ(structure, Frac(1, 4))),
         AddQ(MulQ(logic, Frac(1, 4)), MulQ(output, Frac(1, 4))))

\* (variant of NotExecuted: the body was run and printed 6)
NotExecuted_ran == [success |-> TRUE, output |-> "6\n"]

\* what compare uses when the language is not python
NotExecuted == [success |-> FALSE, output |-> ""]

\* a body that is not a str (None) makes re.sub in _normalize_code raise
\* TypeError inside the try block
MetricRaises(student, manual) == student = NoneVal \/ manual = NoneVal

\* the entries of results that ManualCodeChecker.compare computes from the two
\* bodies alone, or the exception their computation raises
body_metrics(student, manual, lang) ==
    IF MetricRaises(student, manual)
    THEN [raised |-> "expected string or bytes-like object"]
    ELSE [syntax_match |-> _check_syntax_match(student, manual),
          structure_match |-> _check_structure_match(student, manual),
          logic_match |-> _check_logic_match(student, manual, lang),
          errors |-> _find_errors(student, manual, lang),
          code_differences |-> _find_code_differences(student, manual)]

\* the try block of ManualCodeChecker.compare, given what the two
\* execute_python_code calls returned; overall is the unrounded overall_score
\* the grade is computed from
compare_report(metrics, student_exec, manual_exec, half_up) ==
    LET output_match == _compare_outputs(Get(student_exec, "output", ""),
                                         Get(manual_exec, "output", ""))
        overall == WeightedSum(metrics.syntax_match, metrics.structure_match,
                               metrics.logic_match, output_match)
    IN [syntax_match |-> metrics.syntax_match,
        structure_match |-> metrics.structure_match,
        logic_match |-> metrics.logic_match,
        output_match |-> output_match,
        errors |-> metrics.errors,
        code_differences |-> metrics.code_differences,
        student_execution |-> student_exec,
        manual_execution |-> manual_exec,
        overall |-> overall,
        overall_score |-> Round2(overall, half_up),
        grade |-> ManualCodeChecker_calculate_grade(overall)]

\* ManualCodeChecker.compare once the entries that depend on the bodies alone
\* are known: the rest of the try block, and except Exception
compare_given(metrics, student_exec, manual_exec, half_up) ==
    IF Has(metrics, "raised")
    THEN [error |-> "Manual comparison failed: " \o metrics.raised]
    ELSE compare_report(metrics, student_exec, manual_exec, half_up)

\* (variant of compare: no except clause, the exception reaches the caller)
compare_uncaught(student, manual, lang, student_exec, manual_exec, half_up) ==
    LET metrics == body_metrics(student, manual, lang)
    IN IF Has(metrics, "raised")
       THEN [exception |-> "TypeError: " \o metrics.raised]
       ELSE compare_report(metrics, student_exec, manual_exec, half_up)

\* ManualCodeChecker.compare: the try block, and except Exception
compare(student, manual, lang, student_exec, manual_exec, half_up) ==
    compare_given(body_metrics(student, manual, lang),
                  student_exec, manual_exec, half_up)

\* results execute_python_code can return to compare
PyExecutions ==
    {py_result(0, "6\n", ""), py_result(0, "", ""), py_result(0, "sum: 6\n", ""),
     py_result(0, "16\n", ""),
     py_result(1, "", "IndexError: list index out of range"), py_timeout}

\* the compare handler: both bodies are executed (python only), then scored
ManualCodeChecker_compare ==
    /\ Has(report, "pending")
    /\ \E metrics \in {body_metrics(student_code, manual_code, cmp_language)},
          student_exec \in (IF cmp_language = "python" THEN PyExecutions
                            ELSE {NotExecuted}),
          manual_exec \in (IF cmp_language = "python" THEN PyExecutions
                           ELSE {NotExecuted}),
          half_up \in BOOLEAN :
          report' = compare_given(metrics, student_exec, manual_exec, half_up)
    /\ UNCHANGED <<student_code, manual_code, cmp_language, rvars, gvars, xvars>>

\* source texts: up to MaxLexemes of these fragments, concatenated
Lexemes ==
    {"def f(x):\n", "    return x\n", "print(6)\n", "# sum\n",
     "for i in range(len(x)):\n", "x = 'a'\n"}

RECURSIVE TextsOf(_)
TextsOf(k) ==
    IF k = 0 THEN {""}
    ELSE LET shorter == TextsOf(k - 1)
         IN shorter \cup {t \o l : t \in shorter, l \in Lexemes}

ReferenceSamples == {"def f(x):\n    return x\n", "print(6)\n"}
CompareLanguages == {"python", "javascript", "java"}

CompareInit ==
    /\ student_code \in TextsOf(MaxLexemes)
    /\ manual_code \in {student_code} \cup ReferenceSamples
    /\ cmp_language \in CompareLanguages
    /\ report = NoResult

\* s repeated n times
RECURSIVE Repeat(_, _)
Repeat(s, n) == IF n = 0 THEN "" ELSE s \o Repeat(s, n - 1)

\* the summation task: a reference with range(len(numbers)), one with
\* range(0, len(numbers)), one with a while loop, and a one-line reference
SumReference ==
    "def sum_list(numbers):\n    total = 0\n    for i in range(len(numbers)):\n"
    \o "        total += numbers[i]\n    return total\n"
SumReferenceFromZero ==
    "def sum_list(numbers):\n    total = 0\n    for i in range(0, len(numbers)):\n"
    \o "        total += numbers[i]\n    return total\n"
SumReferenceWhile ==
    "def sum_list(numbers):\n    total = 0\n    i = 0\n    while i < len(numbers):\n"
    \o "        total += numbers[i]\n        i += 1\n    return total\n"
ScenarioReferences ==
    {SumReference, SumReferenceFromZero, SumReferenceWhile, "print(6)\n"}

\* submissions: the placeholder, the loop over range(1, len(numbers)+1), a
\* one-line program, the reference itself, and a body of 21 lines
Placeholder == "def sum_list(numbers): pass"
SumFromOne ==
    "def sum_list(numbers):\n    total = 0\n    for i in range(1, len(numbers)+1):\n"
    \o "        total += numbers[i]\n    return total\n"
ScenarioSubmissions ==
    {Placeholder, "def sum_list(numbers):\n    pass\n", SumFromOne,
     "print(len('abcdef'))\n", SumReference, Repeat("x = 6\n", 21)}

\* what these bodies print when run: the two one-line programs print 6, the
\* others only define a function or assign
StdoutOf(code) == IF Contains(code, "print(") THEN "6\n" ELSE ""

\* what execute_python_code can return for such a body
RunsOf(code) == {py_result(0, StdoutOf(code), ""), py_timeout}

\* the compare handler on a scenario: both bodies are executed (python only),
\* then scored
CompareScenario ==
    /\ Has(report, "pending")
    /\ \E metrics \in {body_metrics(student_code, manual_code, cmp_language)},
          student_exec \in (IF cmp_language = "python" THEN RunsOf(student_code)
                            ELSE {NotExecuted}),
          manual_exec \in (IF cmp_language = "python" THEN RunsOf(manual_code)
                           ELSE {NotExecuted}),
          half_up \in BOOLEAN :
          report' = compare_given(metrics, student_exec, manual_exec, half_up)
    /\ UNCHANGED <<student_code, manual_code, cmp_language, rvars, gvars, xvars>>

ScenarioInit ==
    /\ student_code \in ScenarioSubmissions
    /\ manual_code \in ScenarioReferences
    /\ cmp_language \in CompareLanguages
    /\ report = NoResult

\* ------------------------------------------------------------------------
\* classify_error applied to a stderr text
\* ------------------------------------------------------------------------
\* stderr texts: up to MaxFragments of these fragments, concatenated
ErrorFragments ==
    {"SyntaxError: invalid syntax\n", "IndexError: list index out of range\n",
     "index out of range\n", "RANGE", "NameError: name 'x' is not defined\n",
     "ModuleNotFoundError: No module named 'x'\n", "Segmentation fault\n",
     "Timeout", "    while True\n", "  raise indexerror(x\n"}

RECURSIVE MessagesOf(_)
MessagesOf(k) ==
    IF k = 0 THEN {""}
    ELSE LET shorter == MessagesOf(k - 1)
         IN shorter \cup {t \o f : t \in shorter, f \in ErrorFragments}

\* error_type = classify_error(result.stderr)
ClassifyError ==
    /\ error_type = NoneVal
    /\ error_type' = classify_error(stderr_text)
    /\ UNCHANGED <<stderr_text, rvars, gvars, cvars, mvars, ovars, avars, hvars,
                   wvars, tvars>>

ClassifyInit ==
    /\ stderr_text \in MessagesOf(MaxFragments)
    /\ error_type = NoneVal

ClassifyIdle ==
    /\ stderr_text = ""
    /\ error_type = NoneVal

\* ------------------------------------------------------------------------
\* _check_syntax_match and _check_structure_match applied to two bodies
\* ------------------------------------------------------------------------
CheckCodeMetrics ==
    /\ Has(code_metrics, "pending")
    /\ code_metrics' =
          [syntax_12 |-> _check_syntax_match(body1, body2),
           syntax_21 |-> _check_syntax_match(body2, body1),
           syntax_11 |-> _check_syntax_match(body1, body1),
           structure_12 |-> _check_structure_match(body1, body2),
           structure_11 |-> _check_structure_match(body1, body1)]
    /\ UNCHANGED <<body1, body2, rvars, gvars, cvars, kvars, ovars, avars, hvars,
                   wvars, tvars>>

MetricsInit ==
    /\ body1 \in TextsOf(MaxLexemes)
    /\ body2 \in {body1} \cup TextsOf(1) \cup ReferenceSamples
    /\ code_metrics = NoResult

MetricsIdle ==
    /\ body1 = ""
    /\ body2 = ""
    /\ code_metrics = NoResult

\* ------------------------------------------------------------------------
\* _compare_outputs applied to two captured outputs
\* ------------------------------------------------------------------------
OutputSamples ==
    {"", "\n", "  \n", "6\n", "6", "Sum: 6\n", "sum: 6\n", "16\n", "abc\n",
     "6.0 items\n", "abd\n"}

CompareOutputs ==
    /\ Has(output_score, "pending")
    /\ output_score' = [score |-> _compare_outputs(stdout1, stdout2)]
    /\ UNCHANGED <<stdout1, stdout2, rvars, gvars, cvars, kvars, mvars, avars, hvars,
                   wvars, tvars>>

OutputsInit ==
    /\ stdout1 \in OutputSamples
    /\ stdout2 \in OutputSamples
    /\ output_score = NoResult

OutputsIdle ==
    /\ stdout1 = ""
    /\ stdout2 = ""
    /\ output_score = NoResult

\* the subsystems above, not in use
MetricsUnused == MetricsIdle /\ OutputsIdle

\* ------------------------------------------------------------------------
\* CodeAnalyzer.compare_code (services/code_analyzer.py) and CodeEmbedding
\* (models/embeddings.py)
\* ------------------------------------------------------------------------
\* extract_elements: the counts by label; no label for other languages
extract_elements(code, lang) ==
    IF lang = "python"
    THEN [funcs |-> Count(code, "def "),
          loops |-> Count(code, "for ") + Count(code, "while "),
          conditionals |-> Count(code, "if ") + Count(code, "elif ")
                           + Count(code, "else:"),
          returns |-> Count(code, "return ")]
    ELSE IF lang = "java"
    THEN [methods |-> Count(code, "public ") + Count(code, "private ")
                      + Count(code, "protected "),
          loops |-> Count(code, "for ") + Count(code, "while "),
          conditionals |-> Count(code, "if ") + Count(code, "else "),
          returns |-> Count(code, "return ")]
    ELSE <<>>

\* matches = the elements "label:count" of elems1 that are in elems2
_calculate_logic_similarity(code1, code2, lang) ==
    LET elems1 == extract_elements(code1, lang)
        elems2 == extract_elements(code2, lang)
        matches == Cardinality({l \in DOMAIN elems1 :
                                   l \in DOMAIN elems2 /\ elems1[l] = elems2[l]})
        total == Max2(Cardinality(DOMAIN elems1), Cardinality(DOMAIN elems2))
    IN IF total > 0 THEN Frac(matches, total) ELSE Frac(0, 1)

\* np.frombuffer(sha256(code).digest(), dtype=float32) for the bodies used
\* below, reduced to the 7th and the 2nd of its eight floats and to small
\* magnitudes with the same signs:
\*   "print(21)\n"  7th float  1.2e+18, the others below 1e+14 in magnitude
\*   "print(95)\n"  7th float -3.2e+14, the others below 1e+05
\*   "def f(x):\n    return x\n"  2nd float -5.4e+11, the others below 1e+09
\*   "print(6)\n"   7th float 2.7e+29: the float32 norm overflows to inf and
\*                  embedding / inf is the zero vector
digest_floats(code) ==
    CASE code = "print(21)\n" -> <<2, 0>>
      [] code = "print(95)\n" -> <<0 - 3, 0>>
      [] code = "def f(x):\n    return x\n" -> <<0, 0 - 4>>
      [] OTHER -> <<0, 0>>

\* q / r, for r > 0
DivQ(q, r) == Reduced(q.num * r.den, q.den * r.num)

\* the square root of q, for the squares that occur here
SqrtQ(q) == CHOOSE r \in {Frac(n, 1) : n \in 0..5} : EqQ(MulQ(r, r), q)

\* np.linalg.norm and np.dot
Norm(v) == SqrtQ(AddQ(MulQ(v[1], v[1]), MulQ(v[2], v[2])))
Dot(v, w) == AddQ(MulQ(v[1], w[1]), MulQ(v[2], w[2]))

\* CodeEmbedding.simple_embedding, from the digest on
simple_embedding(digest) ==
    LET embedding == <<Frac(digest[1], 1), Frac(digest[2], 1)>>
        norm == Norm(embedding)
    IN IF norm.num > 0
       THEN <<DivQ(embedding[1], norm), DivQ(embedding[2], norm)>>
       ELSE embedding

\* CodeEmbedding.calculate_similarity
calculate_similarity(embedding1, embedding2) ==
    LET dot_product == Dot(embedding1, embedding2)
        norm1 == Norm(embedding1)
        norm2 == Norm(embedding2)
    IN IF norm1.num = 0 \/ norm2.num = 0 THEN Frac(0, 1)
       ELSE DivQ(dot_product, MulQ(norm1, norm2))

\* _find_differences: unified_diff yields lines only when the stripped
\* bodies differ
_find_differences(code1, code2) ==
    IF Strip(code1) = Strip(code2) THEN <<>>
    ELSE <<[type |-> "structural_difference"]>>

\* the try block of compare_code
compare_code_report(student, reference, lang) ==
    LET syntax_similarity == SequenceRatio(Strip(student), Strip(reference))
        logic_similarity == _calculate_logic_similarity(student, reference, lang)
        embedding_similarity ==
            calculate_similarity(simple_embedding(digest_floats(student)),
                                 simple_embedding(digest_floats(reference)))
        overall_similarity ==
            AddQ(AddQ(MulQ(syntax_similarity, Frac(3, 10)),
                      MulQ(logic_similarity, Frac(4, 10))),
                 MulQ(embedding_similarity, Frac(3, 10)))
    IN [syntax_similarity |-> syntax_similarity,
        logic_similarity |-> logic_similarity,
        embedding_similarity |-> embedding_similarity,
        overall_similarity |-> overall_similarity,
        differences |-> _find_differences(student, reference),
        match_percentage |-> MulQ(overall_similarity, Frac(100, 1)),
        grade |-> CodeAnalyzer_calculate_grade(overall_similarity)]

\* CodeAnalyzer.compare_code: if not reference_code, the try block, and
\* except Exception (student_code.strip() raises for None)
compare_code(student, reference, lang) ==
    IF reference \in {NoneVal, ""} THEN [error |-> "No reference code provided"]
    ELSE IF student = NoneVal
    THEN [error |-> "Comparison failed: 'NoneType' object has no attribute 'strip'"]
    ELSE compare_code_report(student, reference, lang)

\* ------------------------------------------------------------------------
\* Comparison requests: the /manual-check handler (main.py), direct calls of
\* ManualCodeChecker.compare, and CodeAnalyzer.compare_code
\* ------------------------------------------------------------------------
ReportTexts == {"print(6)\n", "def f(x):\n    return x\n", "for i in x:\n    pass\n"}
AnalyzerTexts == {"print(6)\n", "print(21)\n", "print(95)\n", "def f(x):\n    return x\n"}
BlankTexts == {"", "  \n"}
ReportExecutions == {py_result(0, "6\n", ""), py_timeout}

\* ManualCheckRequest fields are str; the two classes are also called with
\* a body that is None
Requests ==
    {[entry |-> "manual_check_code", student_code |-> s, reference |-> m, language |-> l] :
        s \in ReportTexts, m \in ReportTexts \cup BlankTexts, l \in {"python", "java"}}
    \cup
    {[entry |-> "ManualCodeChecker.compare", student_code |-> s, reference |-> m, language |-> l] :
        s \in ReportTexts \cup {NoneVal}, m \in ReportTexts \cup BlankTexts \cup {NoneVal},
        l \in {"python", "java"}}
    \cup
    {[entry |-> "CodeAnalyzer.compare_code", student_code |-> s, reference |-> m, language |-> l] :
        s \in AnalyzerTexts \cup {NoneVal}, m \in AnalyzerTexts \cup BlankTexts \cup {NoneVal},
        l \in {"python", "java", "c"}}

\* what the execute_python_code calls of compare can return for the request
ExecutionsFor(lang) == IF lang = "python" THEN ReportExecutions ELSE {NotExecuted}

\* the row manual_check_code inserts for a report
CheckRow(task_id, rep) == [task_id |-> task_id, grade |-> Get(rep, "grade", "F")]

\* POST /manual-check
manual_check_code ==
    /\ request.entry = "manual_check_code"
    /\ Has(response, "pending")
    /\ IF Strip(request.reference) = ""
       THEN /\ response' = [error |-> "Manual code is required for comparison"]
            /\ manual_checks' = manual_checks
       ELSE \E student_exec \in ExecutionsFor(request.language),
               manual_exec \in ExecutionsFor(request.language),
               half_up \in BOOLEAN :
              LET rep == compare(request.student_code, request.reference,
                                 request.language, student_exec, manual_exec,
                                 half_up)
              IN /\ response' = rep
                 /\ manual_checks' = IF ~Has(rep, "error")
                                     THEN Append(manual_checks, CheckRow("task", rep))
                                     ELSE manual_checks
    /\ UNCHANGED <<request, rvars, gvars, cvars, kvars, mvars, ovars, hvars,
                   wvars, tvars>>

\* manual_checker.compare(student_code, manual_code, language), called
\* outside the handler
CallCompare ==
    /\ request.entry = "ManualCodeChecker.compare"
    /\ Has(response, "pending")
    /\ \E student_exec \in ExecutionsFor(request.language),
          manual_exec \in ExecutionsFor(request.language),
          half_up \in BOOLEAN :
          response' = compare(request.student_code, request.reference,
                              request.language, student_exec, manual_exec,
                              half_up)
    /\ UNCHANGED <<request, manual_checks, rvars, gvars, cvars, kvars, mvars, ovars, hvars,
                   wvars, tvars>>

\* CodeAnalyzer().compare_code(student_code, reference_code, language)
CodeAnalyzer_compare_code ==
    /\ request.entry = "CodeAnalyzer.compare_code"
    /\ Has(response, "pending")
    /\ response' = compare_code(request.student_code, request.reference,
                                request.language)
    /\ UNCHANGED <<request, manual_checks, rvars, gvars, cvars, kvars, mvars, ovars, hvars,
                   wvars, tvars>>

ReportsInit ==
    /\ request \in Requests
    /\ response = NoResult
    /\ manual_checks \in {<<>>, <<[task_id |-> "earlier", grade |-> "B"]>>}

ReportsIdle ==
    /\ request = [entry |-> "none", student_code |-> "", reference |-> "",
                  language |-> "python"]
    /\ response = NoResult
    /\ manual_checks = <<>>

\* ------------------------------------------------------------------------
\* RAGService (services/rag_service.py)
\* ------------------------------------------------------------------------
StartsWith(s, prefix) == Len(s) >= Len(prefix) /\ SubSeq(s, 1, Len(prefix)) = prefix

\* s[:n]
Prefix(s, n) == SubSeq(s, 1, Min2(n, Len(s)))

\* s.replace(old, new)
RECURSIVE Replace(_, _, _)
Replace(s, old, new) ==
    LET k == Find(s, old)
    IN IF old = "" \/ k = 0 THEN s
       ELSE SubSeq(s, 1, k - 1) \o new
            \o Replace(SubSeq(s, k + Len(old), Len(s)), old, new)

\* the text after the first sep: s.split(sep, 1)[1]
AfterFirst(s, sep) ==
    LET k == Find(s, sep) IN SubSeq(s, k + Len(sep), Len(s))

\* text LIKE '%pat%' in SQLite: any position, ASCII letters without case,
\* _ in pat matches any one character
Like(text, pat) ==
    \E i \in 1..(Len(text) - Len(pat) + 1) :
        \A j \in 1..Len(pat) :
            \/ CharAt(pat, j) = "_"
            \/ LowerChar(CharAt(text, i + j - 1)) = LowerChar(CharAt(pat, j))

\* the database file at db_path:
\*   "missing"    sqlite3.connect fails (the data directory does not exist)
\*   "no_table"   the file has no rag_solutions table: what _init_database
\*                leaves, since its first CREATE TABLE is rejected
\*   "ready"      rag_solutions and code_patterns were created by other means
\*   "read_only"  as ready, but the file cannot be written
DbStates == {"missing", "no_table", "ready", "read_only"}

\* RAGService.__init__ / _init_database: connect, then CREATE TABLE
\* rag_solutions, whose text holds "# Store hash instead of full embedding";
\* SQLite has no # token and rejects the statement, so nothing is created
\* and the constructor raises
RAGService_init_raises(db) ==
    IF db = "missing" THEN "OperationalError: unable to open database file"
    ELSE "OperationalError: unrecognized token: \"#\""

\* the patterns of one stripped line of _extract_patterns
LinePatterns(line, lang) ==
    IF line = "" \/ StartsWith(line, "#") THEN {}
    ELSE (IF lang = "python" /\ StartsWith(line, "def ")
          THEN {"function_def:" \o Replace(SplitFirst(line, "("), "def ", "")}
          ELSE {})
         \cup (IF Contains(line, "for ") \/ Contains(line, "while ")
               THEN {"loop_statement"} ELSE {})
         \cup (IF StartsWith(line, "if ") \/ StartsWith(line, "elif ")
                  \/ Contains(line, "else:")
               THEN {"conditional_statement"} ELSE {})
         \cup (IF Contains(line, "return ") THEN {"return_statement"} ELSE {})
         \cup (IF Contains(line, " = ") /\ ~StartsWith(line, "def ")
                  /\ Strip(SplitFirst(line, " = ")) # ""
               THEN {"var_assignment:" \o Strip(SplitFirst(line, " = "))}
               ELSE {})

\* _extract_patterns: list(set(patterns)), as a set; the order of the list is
\* the iteration order of a set of str, which differs from run to run
_extract_patterns(code, lang) ==
    LET lines == SplitLines(Strip(code))
    IN UNION {LinePatterns(Strip(lines[i]), lang) : i \in DOMAIN lines}

\* the patterns that patterns[:3] can hold
FirstThree(patterns) ==
    {c \in SUBSET patterns : Cardinality(c) = Min2(3, Cardinality(patterns))}

\* the text of the LIKE condition built for a pattern
pattern_condition(pattern) ==
    IF Contains(pattern, ":")
    THEN IF SplitFirst(pattern, ":") = "function_def"
         THEN "def " \o AfterFirst(pattern, ":")
         ELSE AfterFirst(pattern, ":") \o " = "
    ELSE pattern

\* what one pattern adds to matches in _calculate_pattern_match_score
PatternPoints(pattern, code) ==
    IF Contains(pattern, ":")
    THEN IF SplitFirst(pattern, ":") = "function_def"
            /\ Contains(code, "def " \o AfterFirst(pattern, ":"))
         THEN 2
         ELSE IF SplitFirst(pattern, ":") = "var_assignment"
                 /\ Contains(code, AfterFirst(pattern, ":") \o " = ")
         THEN 1 ELSE 0
    ELSE IF Contains(code, pattern) THEN 1 ELSE 0

RECURSIVE Matches(_, _)
Matches(patterns, code) ==
    IF patterns = {} THEN 0
    ELSE LET pattern == CHOOSE q \in patterns : TRUE
         IN PatternPoints(pattern, code) + Matches(patterns \ {pattern}, code)

\* _calculate_pattern_match_score, as a rational
_calculate_pattern_match_score(patterns, code) ==
    IF patterns = {} THEN Frac(0, 1)
    ELSE Frac(Matches(patterns, code), Cardinality(patterns))

\* (variant of SortByScore: the candidates stay in the order of the rows)
SortByScore_unsorted(solutions) == solutions

\* solutions.sort(key=score, reverse=True): stable, highest score first
RECURSIVE SortByScore(_)
SortByScore(solutions) ==
    IF solutions = <<>> THEN <<>>
    ELSE LET rest == SortByScore(Tail(solutions))
             first == Head(solutions)
             \* first goes before every later solution that does not beat it
             ahead == {i \in DOMAIN rest : ~GeQ(first.score, rest[i].score)}
             k == Cardinality(ahead)
         IN SubSeq(rest, 1, k) \o <<first>> \o SubSeq(rest, k + 1, Len(rest))

\* the ids in seq order reversed: ORDER BY created_at DESC
RECURSIVE NewestFirst(_)
NewestFirst(ids) ==
    IF ids = <<>> THEN <<>> ELSE NewestFirst(Tail(ids)) \o <<Head(ids)>>

\* the text the query is built from holds a quote, which ends the SQL
\* literal early: cursor.execute raises and rows = []
QueryRejected(conditions, lang, task, error) ==
    \/ Contains(lang, "'")
    \/ task # NoneVal /\ Contains(task, "'")
    \/ error # NoneVal /\ Contains(Prefix(error, 20), "'")
    \/ \E c \in conditions : Contains(c, "'")

\* _search_by_patterns, after sqlite3.connect; first3 is patterns[:3].
\* created_at has a resolution of one second: rows stored within the same
\* second tie under ORDER BY created_at DESC and come back in rowid order
\* (same_second), otherwise the newest row comes first
_search_by_patterns(patterns, first3, lang, task, error, db, table, same_second) ==
    LET conditions == {pattern_condition(q) : q \in first3}
        selected(i) ==
            /\ table[i].language = lang
            /\ (task # NoneVal /\ task # "") => table[i].task_id = task
            /\ (error # NoneVal /\ error # "")
                   => Like(table[i].error_type, Prefix(error, 20))
            /\ \E c \in conditions : Like(table[i].code, c)
        ids == SelectSeq([i \in DOMAIN table |-> i], selected)
        newest == IF same_second THEN ids ELSE NewestFirst(ids)
        rows == IF db = "no_table" \/ QueryRejected(conditions, lang, task, error)
                THEN <<>>
                ELSE SubSeq(newest, 1, Min2(5, Len(newest)))
        solution(i) ==
            [id |-> i, task_id |-> table[i].task_id,
             code |-> IF Len(table[i].code) > 200
                      THEN Prefix(table[i].code, 200) \o "..." ELSE table[i].code,
             error_type |-> table[i].error_type, hint |-> table[i].hint,
             score |-> _calculate_pattern_match_score(patterns, table[i].code)]
        decent(i) == ~GeQ(Frac(1, 10), solution(i).score)
    IN IF patterns = {} THEN <<>>
       ELSE SortByScore([k \in 1..Len(SelectSeq(rows, decent)) |->
                            solution(SelectSeq(rows, decent)[k])])

\* the numbered rules of _generate_rule_based_hint
rules(lang) ==
    IF lang = "java"
    THEN <<"1. Check for missing semicolons ;",
           "2. Verify braces {} are balanced",
           "3. Make sure class and method names match",
           "4. Check variable types",
           "5. Ensure proper imports">>
    ELSE IF lang = "javascript"
    THEN <<"1. Check console for errors",
           "2. Verify variable declarations (let/const/var)",
           "3. Check function definitions and calls",
           "4. Look for undefined variables",
           "5. Check bracket/parenthesis matching">>
    ELSE IF lang = "c"
    THEN <<"1. Check #include statements",
           "2. Verify semicolons after statements",
           "3. Check function prototypes",
           "4. Look for uninitialized variables",
           "5. Check pointer usage">>
    ELSE <<"1. Check for syntax errors (missing colons, parentheses)",
           "2. Verify indentation (use 4 spaces)",
           "3. Make sure variables are defined before use",
           "4. Check function names and arguments",
           "5. Use print() to debug variable values">>

\* _generate_rule_based_hint; error is not read
_generate_rule_based_hint(error, lang, code) ==
    "Debugging " \o lang \o " code:\n" \o JoinLines(rules(lang))
    \o (IF Contains(Lower(code), "sum") /\ Contains(code, "pass")
        THEN "\n\nFor sum function: Implement the loop or use sum() function"
        ELSE "")

\* f"{score:.0%}", for the scores that occur here
Percent(score) == ToString((200 * score.num + score.den) \div (2 * score.den)) \o "%"

\* _generate_pattern_based_hint, for an error that is a str; the bullet
\* character of the advice lines is written *
_generate_pattern_based_hint(code, error, similar_solutions) ==
    IF similar_solutions = <<>> THEN _generate_rule_based_hint(error, "python", code)
    ELSE LET best_match == similar_solutions[1]
             error_lower == Lower(error)
         IN JoinLines(
              <<"Found similar code pattern (" \o Percent(best_match.score) \o " match):">>
              \o (IF Contains(error_lower, "syntax") \/ Contains(error_lower, "invalid")
                  THEN <<"* Check syntax: parentheses, brackets, colons",
                         "* Verify indentation is consistent">> ELSE <<>>)
              \o (IF Contains(error_lower, "not defined") \/ Contains(error_lower, "name")
                  THEN <<"* Check variable/function names for typos",
                         "* Make sure variables are declared before use">> ELSE <<>>)
              \o (IF Contains(error_lower, "index")
                  THEN <<"* Check array/list bounds",
                         "* Remember indices start at 0">> ELSE <<>>)
              \o (IF Contains(code, "pass")
                  THEN <<"* Replace 'pass' with actual implementation">> ELSE <<>>)
              \o (IF best_match.hint # ""
                  THEN <<"\nRelated hint from similar code:",
                         "\"" \o Prefix(best_match.hint, 200) \o "...\"">>
                  ELSE <<>>))

\* the row _store_solution_patterns inserts
SolutionRow(code, error, lang, task, hint) ==
    [task_id |-> task, language |-> lang, code |-> Prefix(code, 1000),
     error_type |-> IF error = NoneVal \/ error = "" THEN "no_error"
                    ELSE Prefix(error, 100),
     hint |-> Prefix(hint, 500)]

\* _store_solution_patterns: the INSERT, and except Exception, which only
\* prints
_store_solution_patterns(code, error, lang, task, hint, db, table) ==
    IF db = "ready" THEN Append(table, SolutionRow(code, error, lang, task, hint))
    ELSE table

\* the except branch of generate_hint
Fallback(code, error, lang, msg) ==
    [hint |-> _generate_rule_based_hint(error, lang, code),
     similarity_score |-> Frac(0, 1), similar_solutions |-> <<>>,
     rag_used |-> FALSE, error |-> msg]

\* the dict generate_hint returns at the end of its try block
Answer(hint, similar_solutions, patterns) ==
    [hint |-> hint,
     similarity_score |-> IF similar_solutions # <<>>
                          THEN similar_solutions[1].score ELSE Frac(0, 1),
     similar_solutions |->
         SubSeq(similar_solutions, 1, Min2(2, Len(similar_solutions))),
     rag_used |-> TRUE,
     patterns_found |-> Cardinality(patterns)]

\* generate_hint: what it returns and the table it leaves
generate_hint(code, error, lang, task, first3, db, table, same_second) ==
    LET patterns == _extract_patterns(code, lang)
        similar_solutions ==
            _search_by_patterns(patterns, first3, lang, task, error, db, table,
                                same_second)
        hint == _generate_pattern_based_hint(code, error, similar_solutions)
    IN IF db = "missing"
       THEN \* sqlite3.connect raises in _search_by_patterns
            [result |-> Fallback(code, error, lang, "unable to open database file"),
             table |-> table]
       ELSE IF similar_solutions # <<>> /\ error = NoneVal
       THEN \* error.lower() raises in _generate_pattern_based_hint
            [result |-> Fallback(code, error, lang,
                                 "'NoneType' object has no attribute 'lower'"),
             table |-> table]
       ELSE [result |-> Answer(hint, similar_solutions, patterns),
             table |-> _store_solution_patterns(code, error, lang, task, hint, db, table)]

HintCodes == {"def f(x):\n    pass", "x = 1", "for i in x:\n    y = i"}
HintErrors == {NoneVal, "", "IndexError", "NameError: name 'y' is not defined"}
HintLanguages == {"python", "java"}

\* a row stored by an earlier generate_hint("x = 1", "", "java")
EarlierRow ==
    SolutionRow("x = 1", "", "java", NoneVal,
                _generate_rule_based_hint("", "python", "x = 1"))

\* RAGService(db_path), before any request
RAGService_init ==
    /\ init_error = NoneVal
    /\ hint_requests = 0
    /\ init_error' = RAGService_init_raises(db_state)
    /\ UNCHANGED <<db_state, rag_solutions, hint_request, hint_response,
                   hint_requests, rvars, gvars, cvars, kvars, mvars, ovars, avars,
                   wvars, tvars>>

\* one call of generate_hint with a body of codes
HintCall(codes) ==
    \E code \in codes, error \in HintErrors, lang \in HintLanguages :
       \E first3 \in FirstThree(_extract_patterns(code, lang)),
          same_second \in BOOLEAN :
          LET out == generate_hint(code, error, lang, NoneVal, first3,
                                   db_state, rag_solutions, same_second)
          IN /\ hint_request' = [code |-> code, error |-> error, language |-> lang]
             /\ hint_response' = out.result
             /\ rag_solutions' = out.table

\* service.generate_hint(student_code, error, language), on an instance
\* whose db_path names the database
RAGService_generate_hint ==
    /\ hint_requests < MaxRequests
    /\ HintCall(HintCodes)
    /\ hint_requests' = hint_requests + 1
    /\ UNCHANGED <<db_state, init_error, rvars, gvars, cvars, kvars, mvars, ovars,
                   avars, wvars, tvars>>

\* bodies with two and with four patterns
SearchCodes ==
    {"x = 1", "x = 1\ny = 2", "def f(x):\n    for i in x:\n        y = i\n    return y"}

\* the rows earlier generate_hint(code, "", "python") calls stored
StoredRows ==
    {SolutionRow(code, "", "python", NoneVal,
                 _generate_rule_based_hint("", "python", code)) :
        code \in {"x = 1", "x = 1\ny = 2"}}

\* the tables of up to MaxRows such rows
Tables == UNION {[1..n -> StoredRows] : n \in 0..MaxRows}

\* service.generate_hint(student_code, error, language) on a corpus that
\* earlier calls filled
generate_hint_on_corpus ==
    /\ hint_requests = 0
    /\ HintCall(SearchCodes)
    /\ hint_requests' = hint_requests + 1
    /\ UNCHANGED <<db_state, init_error, rvars, gvars, cvars, kvars, mvars, ovars,
                   avars, wvars, tvars>>

CorpusInit ==
    /\ db_state = "ready"
    /\ rag_solutions \in Tables
    /\ hint_request = [code |-> "", error |-> NoneVal, language |-> "python"]
    /\ hint_response = NoResult
    /\ hint_requests = 0
    /\ init_error = NoneVal

HintsInit ==
    /\ db_state \in DbStates
    /\ rag_solutions \in IF db_state = "ready" THEN {<<>>, <<EarlierRow>>}
                         ELSE IF db_state = "read_only" THEN {<<EarlierRow>>}
                         ELSE {<<>>}
    /\ hint_request = [code |-> "", error |-> NoneVal, language |-> "python"]
    /\ hint_response = NoResult
    /\ hint_requests = 0
    /\ init_error = NoneVal

HintsIdle ==
    /\ db_state = "no_table"
    /\ rag_solutions = <<>>
    /\ hint_request = [code |-> "", error |-> NoneVal, language |-> "python"]
    /\ hint_response = NoResult
    /\ hint_requests = 0
    /\ init_error = NoneVal

\* ------------------------------------------------------------------------
\* Two generate_hint calls at the same time, each on its own connections.
\* The file is in SQLite's default rollback-journal mode and every
\* connection has the default busy timeout of 5 seconds:
\*   - the INSERT of _store_solution_patterns takes the RESERVED lock, which
\*     one connection can hold; another INSERT is retried until the lock is
\*     free or the timeout expires ("database is locked")
\*   - conn.commit() takes the EXCLUSIVE lock while it writes the file; a
\*     SELECT is retried until the commit has finished or the timeout expires
\*   positions of a call: "search", "store", "inserted" (RESERVED held),
\*   "committing" (EXCLUSIVE held), "done"
\* ------------------------------------------------------------------------
Workers == {1, 2}

WorkerCodes == {"def f(x):\n    pass", "x = 1"}

Holds(w, locks) == workers[w].pc \in locks
OtherHolds(w, locks) == \E v \in Workers \ {w} : Holds(v, locks)

\* the call returns
Returns(w, answer) == [workers[w] EXCEPT !.pc = "done", !.response = answer]

\* _extract_patterns, _search_by_patterns and _generate_pattern_based_hint of
\* call w; the SELECT runs while no other connection is committing
Search(w) ==
    /\ Holds(w, {"search"})
    /\ db_state # "ready" \/ ~OtherHolds(w, {"committing"})
    /\ LET me == workers[w]
           patterns == _extract_patterns(me.code, me.language)
       IN \E first3 \in FirstThree(patterns), same_second \in BOOLEAN :
            LET similar_solutions ==
                    _search_by_patterns(patterns, first3, me.language, NoneVal,
                                        me.error, db_state, rag_solutions,
                                        same_second)
                hint == _generate_pattern_based_hint(me.code, me.error,
                                                     similar_solutions)
            IN workers' =
                 [workers EXCEPT ![w] =
                    IF db_state = "missing"
                    THEN Returns(w, Fallback(me.code, me.error, me.language,
                                             "unable to open database file"))
                    ELSE IF similar_solutions # <<>> /\ me.error = NoneVal
                    THEN Returns(w, Fallback(me.code, me.error, me.language,
                                    "'NoneType' object has no attribute 'lower'"))
                    ELSE [me EXCEPT !.pc = "store", !.hint = hint,
                                    !.response = Answer(hint, similar_solutions,
                                                        patterns)]]
    /\ UNCHANGED <<db_state, rag_solutions, hint_request, hint_response,
                   hint_requests, init_error, rvars, gvars, cvars, kvars, mvars,
                   ovars, avars, tvars>>

\* the SELECT of call w finds the file locked by a commit and is retried
SearchWaits(w) ==
    /\ Holds(w, {"search"})
    /\ db_state = "ready" /\ OtherHolds(w, {"committing"})
    /\ ~workers[w].waited
    /\ workers' = [workers EXCEPT ![w].waited = TRUE]
    /\ UNCHANGED <<db_state, rag_solutions, hint_request, hint_response,
                   hint_requests, init_error, rvars, gvars, cvars, kvars, mvars,
                   ovars, avars, tvars>>

\* the busy timeout expires during the SELECT: cursor.execute raises, the
\* bare except makes rows = [] and the call goes on without candidates
SearchTimesOut(w) ==
    /\ Holds(w, {"search"})
    /\ db_state = "ready" /\ OtherHolds(w, {"committing"})
    /\ workers[w].waited
    /\ LET me == workers[w]
           hint == _generate_pattern_based_hint(me.code, me.error, <<>>)
       IN workers' = [workers EXCEPT ![w] =
              [me EXCEPT !.pc = "store", !.hint = hint,
                         !.response = Answer(hint, <<>>,
                                 _extract_patterns(me.code, me.language))]]
    /\ UNCHANGED <<db_state, rag_solutions, hint_request, hint_response,
                   hint_requests, init_error, rvars, gvars, cvars, kvars, mvars,
                   ovars, avars, tvars>>

\* the INSERT of _store_solution_patterns: it raises when the table does not
\* exist or the file cannot be written (the except prints, the call returns),
\* and takes the RESERVED lock otherwise
Insert(w) ==
    /\ Holds(w, {"store"})
    /\ db_state # "ready" \/ ~OtherHolds(w, {"inserted", "committing"})
    /\ workers' = [workers EXCEPT ![w].pc =
                      IF db_state = "ready" THEN "inserted" ELSE "done"]
    /\ UNCHANGED <<db_state, rag_solutions, hint_request, hint_response,
                   hint_requests, init_error, rvars, gvars, cvars, kvars, mvars,
                   ovars, avars, tvars>>

\* the busy timeout expires during the INSERT: "database is locked" is raised
\* and caught by the except of _store_solution_patterns, nothing is stored
InsertTimesOut(w) ==
    /\ Holds(w, {"store"})
    /\ db_state = "ready" /\ OtherHolds(w, {"inserted", "committing"})
    /\ workers' = [workers EXCEPT ![w].pc = "done"]
    /\ UNCHANGED <<db_state, rag_solutions, hint_request, hint_response,
                   hint_requests, init_error, rvars, gvars, cvars, kvars, mvars,
                   ovars, avars, tvars>>

\* conn.commit() starts writing the file
BeginCommit(w) ==
    /\ Holds(w, {"inserted"})
    /\ workers' = [workers EXCEPT ![w].pc = "committing"]
    /\ UNCHANGED <<db_state, rag_solutions, hint_request, hint_response,
                   hint_requests, init_error, rvars, gvars, cvars, kvars, mvars,
                   ovars, avars, tvars>>

\* conn.commit() returns: the row is in the table
EndCommit(w) ==
    /\ Holds(w, {"committing"})
    /\ rag_solutions' =
          Append(rag_solutions,
                 SolutionRow(workers[w].code, workers[w].error,
                             workers[w].language, NoneVal, workers[w].hint))
    /\ workers' = [workers EXCEPT ![w].pc = "done"]
    /\ UNCHANGED <<db_state, hint_request, hint_response,
                   hint_requests, init_error, rvars, gvars, cvars, kvars, mvars,
                   ovars, avars, tvars>>

Worker(code, position) ==
    [pc |-> position, code |-> code, error |-> "", language |-> "python",
     hint |-> "", response |-> NoResult, waited |-> FALSE]

WorkersInit ==
    workers \in [Workers -> {Worker(code, "search") : code \in WorkerCodes}]

WorkersIdle == workers = [w \in Workers |-> Worker("", "done")]

\* ------------------------------------------------------------------------
\* The lab_tasks table (main.py): seeded by insert_sample_data, written by
\* the /upload-manual and /manual/{task_id} handlers
\* ------------------------------------------------------------------------
SeededIds == {"python_sum_list", "python_factorial", "python_palindrome"}

\* insert_sample_data: three tasks, uploaded_by 'system'
insert_sample_data ==
    [id \in SeededIds |->
        [uploaded_by |-> "system", language |-> "python",
         manual_code |-> "# Correct manual solution"]]

TaskIds == {"python_sum_list", "python_factorial", "my_task", " "}
ManualCodes == {"print(6)\n", "def f(x):\n    return x\n", "  \n"}

\* a function with one more (or one changed) entry, and with one entry less
Put(table, id, row) ==
    [k \in DOMAIN table \cup {id} |-> IF k = id THEN row ELSE table[k]]
Drop(table, id) == [k \in DOMAIN table \ {id} |-> table[k]]

\* POST /upload-manual. The two HTTPException(400) are raised inside the try
\* block and caught by except Exception, which answers 500
upload_manual_solution ==
    /\ task_requests < MaxRequests
    /\ \E id \in TaskIds, code \in ManualCodes, lang \in {"python", "java"} :
         IF Strip(code) = "" \/ Strip(id) = ""
         THEN /\ lab_tasks' = lab_tasks
              /\ task_response' = [op |-> "upload", task_id |-> id, status |-> 500]
         ELSE /\ lab_tasks' = Put(lab_tasks, id,
                                  [uploaded_by |-> "user", language |-> lang,
                                   manual_code |-> code])
              /\ task_response' = [op |-> "upload", task_id |-> id, status |-> 200]
    /\ task_requests' = task_requests + 1
    /\ UNCHANGED <<rvars, gvars, cvars, kvars, mvars, ovars, avars, hvars, wvars>>

\* DELETE /manual/{task_id}: DELETE ... WHERE id = ? AND uploaded_by = 'user',
\* 404 when no row was deleted
delete_manual ==
    /\ task_requests < MaxRequests
    /\ \E id \in TaskIds :
         IF id \in DOMAIN lab_tasks /\ lab_tasks[id].uploaded_by = "user"
         THEN /\ lab_tasks' = Drop(lab_tasks, id)
              /\ task_response' = [op |-> "delete", task_id |-> id, status |-> 200]
         ELSE /\ lab_tasks' = lab_tasks
              /\ task_response' = [op |-> "delete", task_id |-> id, status |-> 404]
    /\ task_requests' = task_requests + 1
    /\ UNCHANGED <<rvars, gvars, cvars, kvars, mvars, ovars, avars, hvars, wvars>>

TasksInit ==
    /\ lab_tasks = insert_sample_data
    /\ task_response = NoResult
    /\ task_requests = 0

TasksIdle == TasksInit

\* the services above, not in use
ServicesIdle == ReportsIdle /\ HintsIdle /\ WorkersIdle /\ TasksIdle

\* ------------------------------------------------------------------------
\* Initial states
\* ------------------------------------------------------------------------
\* CodeExecutor.__init__ probes docker once: docker_client is set iff
\* docker.from_env() succeeded
RunnerInit ==
    /\ hostBinaries \in SUBSET Binaries
    /\ daemonUp \in BOOLEAN
    /\ docker_client = daemonUp
    /\ pc = "idle"
    /\ entry = "none"
    /\ language = "none"
    /\ files = {}
    /\ child = NoChild
    /\ result = NoResult
    /\ compileStatus = NotCompiled
    /\ runStarted = FALSE
    /\ containerRan = FALSE
    /\ exitPath = "none"
    /\ backendDownAtCall = FALSE

RunnerIdle ==
    /\ hostBinaries = Binaries
    /\ daemonUp = FALSE
    /\ docker_client = FALSE
    /\ pc = "idle"
    /\ entry = "none"
    /\ language = "none"
    /\ files = {}
    /\ child = NoChild
    /\ result = NoResult
    /\ compileStatus = NotCompiled
    /\ runStarted = FALSE
    /\ containerRan = FALSE
    /\ exitPath = "none"
    /\ backendDownAtCall = FALSE

GradeIdle ==
    /\ score1 = [num |-> 0, den |-> 1]
    /\ score2 = [num |-> 0, den |-> 1]
    /\ grades = NoGrades

CompareIdle ==
    /\ student_code = ""
    /\ manual_code = ""
    /\ cmp_language = "python"
    /\ report = NoResult

\* ------------------------------------------------------------------------
\* Specification of the runners
\* ------------------------------------------------------------------------
Init == RunnerInit /\ GradeIdle /\ CompareIdle /\ ClassifyIdle /\ MetricsUnused /\ ServicesIdle

Next ==
    \/ execute_python_code
    \/ execute_javascript_code
    \/ CodeExecutor_execute
    \/ CompileExits
    \/ RunExits
    \/ TimeoutExpired
    \/ ContainerExits
    \/ DaemonStops
    \/ DaemonStarts

Spec == Init /\ [][Next]_vars

\* ------------------------------------------------------------------------
\* Specification of _calculate_grade: the inputs are drawn by the initial
\* state and both implementations are applied to them
\* ------------------------------------------------------------------------
InitGrade == RunnerIdle /\ GradeInit /\ CompareIdle /\ ClassifyIdle /\ MetricsUnused /\ ServicesIdle

NextGrade == CalculateGrades

SpecGrade == InitGrade /\ [][NextGrade]_vars

\* the order of the grades, and the grade a score s must get
GradeRank(g) ==
    IF g = "A" THEN 4 ELSE IF g = "B" THEN 3 ELSE IF g = "C" THEN 2
    ELSE IF g = "D" THEN 1 ELSE 0

GradeTable(s, g) ==
    /\ g \in {"A", "B", "C", "D", "F"}
    /\ g = "A" <=> 10 * s.num >= 9 * s.den
    /\ g = "B" <=> (10 * s.num >= 8 * s.den /\ 10 * s.num < 9 * s.den)
    /\ g = "C" <=> (10 * s.num >= 7 * s.den /\ 10 * s.num < 8 * s.den)
    /\ g = "D" <=> (10 * s.num >= 6 * s.den /\ 10 * s.num < 7 * s.den)
    /\ g = "F" <=> 10 * s.num < 6 * s.den

\* C1: both _calculate_grade implementations return A iff s >= 0.9, B iff
\* 0.8 <= s < 0.9, C iff 0.7 <= s < 0.8, D iff 0.6 <= s < 0.7 and F
\* otherwise (each boundary value maps to the higher grade), and the grade
\* never gets worse when the score increases.
C1_GradeStepFunction ==
    grades.applied =>
        /\ GradeTable(score1, grades.m1)
        /\ GradeTable(score2, grades.m2)
        /\ GradeTable(score1, grades.a1)
        /\ GradeTable(score2, grades.a2)
        /\ (score1.num * score2.den <= score2.num * score1.den) =>
              /\ GradeRank(grades.m1) <= GradeRank(grades.m2)
              /\ GradeRank(grades.a1) <= GradeRank(grades.a2)

\* ------------------------------------------------------------------------
\* Specification of ManualCodeChecker.compare: the two bodies and the
\* language are drawn by the initial state, the handler is applied to them
\* ------------------------------------------------------------------------
InitCompare == RunnerIdle /\ GradeIdle /\ CompareInit /\ ClassifyIdle /\ MetricsUnused /\ ServicesIdle

NextCompare == ManualCodeChecker_compare

SpecCompare == InitCompare /\ [][NextCompare]_vars

Reported == ~Has(report, "pending")
One == Frac(1, 1)

\* C2: in every report without an error field the four scores lie in [0,1],
\* the aggregate the grade is computed from is the sum of the four scores
\* each weighted 0.25, and the aggregate lies in [0,1].
C2_ScoresInUnitInterval ==
    (Reported /\ ~Has(report, "error")) =>
        /\ InUnit(report.syntax_match)
        /\ InUnit(report.structure_match)
        /\ InUnit(report.logic_match)
        /\ InUnit(report.output_match)
        /\ InUnit(report.overall)
        /\ EqQ(MulQ(report.overall, Frac(4, 1)),
               AddQ(AddQ(report.syntax_match, report.structure_match),
                    AddQ(report.logic_match, report.output_match)))
        /\ GradeTable(report.overall, report.grade)

\* C2 witness: a report in which no score is 0 or 1 and the bodies differ.
C2_Witness ==
    /\ Reported
    /\ student_code # manual_code
    /\ \A s \in {report.syntax_match, report.structure_match,
                 report.logic_match, report.output_match} :
          s.num > 0 /\ s.num < s.den

\* C3: a python submission identical to a non-empty reference, both runs
\* succeeding and printing the same (non-empty) output, scores 1.0 on all
\* four metrics, aggregate 1.0 and grade A.
C3_IdenticalScoresPerfect ==
    (/\ Reported
     /\ cmp_language = "python"
     /\ student_code = manual_code
     /\ student_code # ""
     /\ report.student_execution.success
     /\ report.manual_execution.success
     /\ report.student_execution.output # ""
     /\ report.student_execution.output = report.manual_execution.output) =>
        /\ EqQ(report.syntax_match, One)
        /\ EqQ(report.structure_match, One)
        /\ EqQ(report.logic_match, One)
        /\ EqQ(report.output_match, One)
        /\ EqQ(report.overall, One)
        /\ report.grade = "A"

\* C1 witness: the boundary values 0.9 and 0.8 have been graded A and B.
C1_Witness ==
    /\ grades.applied
    /\ score1 = Frac(8, 10)
    /\ score2 = Frac(9, 10)
    /\ grades.m1 = "B" /\ grades.a1 = "B"
    /\ grades.m2 = "A" /\ grades.a2 = "A"

\* ------------------------------------------------------------------------
\* Properties of the runners (checked under Spec)
\* ------------------------------------------------------------------------
Returned == pc = "done"
ErrorKind(r) == Get(r, "error_type", NoneVal)
KindPopulated(r) == ErrorKind(r) \notin {NoneVal, ""}

\* C4: every result a runner returns is either (success and no error kind) or
\* (failure and an error kind); a failure without an error kind occurs only
\* for an unsupported language.
C4_SuccessXorErrorKind ==
    Returned =>
        \/ result.success /\ ~KindPopulated(result)
        \/ ~result.success /\ KindPopulated(result)
        \/ ~result.success /\ ~KindPopulated(result) /\ exitPath = "unsupported"

\* C5: a run that ended because the child exceeded the timeout returns a
\* failed result whose error kind is TimeoutError.
C5_TimeoutIsTimeoutError ==
    (Returned /\ exitPath = "timeout") =>
        ~result.success /\ ErrorKind(result) = "TimeoutError"

\* C6: when a runner returns, on whatever exit path, no artifact of that
\* execution (source file, compiled file, scratch directory) is left on disk.
C6_NoArtifactLeft ==
    Returned => files = {}

\* C7: an execute call made while the docker daemon is unreachable returns
\* the local runner's result (sandboxed false, never the docker failure), and
\* sandboxed is true only when the code was started inside a container.
C7_FallbackWhenBackendDown ==
    (Returned /\ entry = "CodeExecutor.execute") =>
        /\ backendDownAtCall =>
              (~result.sandboxed /\ exitPath # "exception")
        /\ result.sandboxed => containerRan

\* C8: every child process a runner waits for, compile phase included, is
\* bounded by a timeout.
C8_EveryChildHasTimeout ==
    pc \in {"compile", "run"} =>
        /\ child.timeout
        /\ child.hangs => ENABLED TimeoutExpired

\* C9: for java and c the run phase starts only after the compiler exited
\* with status 0; after a failed compilation the runner has returned at once
\* with success false, the compiler's stderr as error, and no run phase.
C9_RunOnlyAfterCompileOk ==
    (entry = "CodeExecutor.execute" /\ language \in Compiled) =>
        /\ (runStarted \/ pc = "run") => compileStatus.status = "ok"
        /\ compileStatus.status = "failed" =>
              /\ Returned
              /\ ~runStarted
              /\ ~result.success
              /\ result.error = compileStatus.stderr

\* C9 witness: a java or c request whose compilation failed has returned.
C9_Witness ==
    /\ Returned
    /\ entry = "CodeExecutor.execute"
    /\ language \in Compiled
    /\ compileStatus.status = "failed"
    /\ compileStatus.stderr # ""
    /\ exitPath = "compile_failed"

\* C10: whenever the interpreter or compiler binary is missing, the runner
\* returns a failed result whose error kind is RuntimeMissing.
C10_MissingBinaryIsRuntimeMissing ==
    (Returned /\ exitPath = "missing_binary") =>
        ~result.success /\ ErrorKind(result) = "RuntimeMissing"

\* ------------------------------------------------------------------------
\* Specification of classify_error: the stderr text is drawn by the initial
\* state and the classifier is applied to it
\* ------------------------------------------------------------------------
InitClassify == RunnerIdle /\ GradeIdle /\ CompareIdle /\ ClassifyInit /\ MetricsUnused /\ ServicesIdle

NextClassify == ClassifyError

SpecClassify == InitClassify /\ [][NextClassify]_vars

Classified == error_type # NoneVal

\* the text mentions keyword kw, in whatever case
Mentions(text, kw) == Contains(Lower(text), kw)

\* the priority list: each rule names its kind and the keyword sets of which
\* one must be mentioned in full
PriorityList ==
    <<[kind |-> "IndexError", anyOf |-> {{"indexerror"}, {"arrayindexoutofbounds"}}],
      [kind |-> "SyntaxError", anyOf |-> {{"syntaxerror"}}],
      [kind |-> "NameError", anyOf |-> {{"nameerror"}, {"cannot find symbol"}}],
      [kind |-> "TypeError", anyOf |-> {{"typeerror"}}],
      [kind |-> "IndentationError", anyOf |-> {{"indentationerror"}}],
      [kind |-> "ZeroDivisionError", anyOf |-> {{"zerodivisionerror"}, {"divide by zero"}}],
      [kind |-> "KeyError", anyOf |-> {{"keyerror"}}],
      [kind |-> "AttributeError", anyOf |-> {{"attributeerror"}}],
      [kind |-> "ValueError", anyOf |-> {{"valueerror"}}],
      [kind |-> "TimeoutError", anyOf |-> {{"timeout"}}],
      [kind |-> "off_by_one", anyOf |-> {{"off by one"}, {"index", "range"}}],
      [kind |-> "missing_return", anyOf |-> {{"missing return"}, {"does not return"}}],
      [kind |-> "infinite_loop", anyOf |-> {{"infinite loop"}, {"while true"}}]>>

RuleMatches(i, text) ==
    \E keywords \in PriorityList[i].anyOf : \A kw \in keywords : Mentions(text, kw)

MatchingRules(text) == {i \in DOMAIN PriorityList : RuleMatches(i, text)}

\* C11 (as claimed): every text that mentions both "SyntaxError" and "index"
\* is classified SyntaxError.
C11_SyntaxErrorBeatsIndex ==
    (/\ Classified
     /\ Mentions(stderr_text, "syntaxerror")
     /\ Mentions(stderr_text, "index")) =>
        error_type = "SyntaxError"

\* C11 (amended): the rules are tried in the order of the priority list on
\* the lower-cased text and the first rule that matches gives the kind, so
\* no fallback kind is returned while a rule matches; a text that mentions
\* "SyntaxError" and "index" is classified SyntaxError unless it also
\* mentions "IndexError" or "ArrayIndexOutOfBounds", whose rule comes first.
C11_FirstMatchWins ==
    Classified =>
        LET hits == MatchingRules(stderr_text)
            first == CHOOSE i \in hits : \A j \in hits : i <= j
        IN /\ hits # {} => error_type = PriorityList[first].kind
           /\ (/\ Mentions(stderr_text, "syntaxerror")
               /\ Mentions(stderr_text, "index")
               /\ ~Mentions(stderr_text, "indexerror")
               /\ ~Mentions(stderr_text, "arrayindexoutofbounds")) =>
                  error_type = "SyntaxError"

\* C11 witness: a text that matches the SyntaxError rule and also the later
\* rule keyed on "index" and "range" has been classified SyntaxError.
C11_Witness ==
    /\ Classified
    /\ Mentions(stderr_text, "syntaxerror")
    /\ ~Mentions(stderr_text, "indexerror")
    /\ Cardinality(MatchingRules(stderr_text)) >= 2
    /\ RuleMatches(11, stderr_text)
    /\ error_type = "SyntaxError"

\* the closed taxonomy of error kinds, and the taxonomy's name for each kind
\* the classifier spells in snake case
Taxonomy ==
    {"IndexError", "SyntaxError", "NameError", "TypeError", "IndentationError",
     "ZeroDivisionError", "KeyError", "AttributeError", "ValueError",
     "TimeoutError", "RuntimeMissing", "OffByOne", "MissingReturn",
     "InfiniteLoop", "RuntimeError", "UnknownError"}

TaxonomyName(kind) ==
    IF kind = "off_by_one" THEN "OffByOne"
    ELSE IF kind = "missing_return" THEN "MissingReturn"
    ELSE IF kind = "infinite_loop" THEN "InfiniteLoop"
    ELSE kind

\* C12: whatever the text, the kind classify_error returns is a member of
\* the closed taxonomy, and the empty text gives UnknownError.
C12_KindInTaxonomy ==
    Classified =>
        /\ TaxonomyName(error_type) \in Taxonomy
        /\ stderr_text = "" => error_type = "UnknownError"

\* ------------------------------------------------------------------------
\* Specification of the lexical and structural metrics: the two bodies are
\* drawn by the initial state and the metrics are applied to them
\* ------------------------------------------------------------------------
InitMetrics ==
    /\ RunnerIdle /\ GradeIdle /\ CompareIdle /\ ClassifyIdle
    /\ MetricsInit /\ OutputsIdle /\ ServicesIdle

NextMetrics == CheckCodeMetrics

SpecMetrics == InitMetrics /\ [][NextMetrics]_vars

Measured == ~Has(code_metrics, "pending")

\* C13: the lexical score is symmetric, and the score of every non-empty
\* text against itself is 1.0.
C13_SyntaxMatchSymmetricReflexive ==
    Measured =>
        /\ EqQ(code_metrics.syntax_12, code_metrics.syntax_21)
        /\ body1 # "" => EqQ(code_metrics.syntax_11, One)

\* the number of occurrences of the structural keywords in a body
RECURSIVE SumOver(_, _)
SumOver(S, text) ==
    IF S = {} THEN 0
    ELSE LET elem == CHOOSE e \in S : TRUE
         IN Count(text, elem) + SumOver(S \ {elem}, text)

Occurrences(text) == SumOver(elements, text)

\* C14: with count1 and count2 the numbers of occurrences of the structural
\* keywords in the two bodies, the structural score is
\* 1 - |count1 - count2| / max(count1, count2, 1); it lies in [0,1], is 1.0
\* when both counts are zero, and is 1.0 for a body against itself.
C14_StructureMatchFromOccurrences ==
    Measured =>
        LET count1 == Occurrences(body1)
            count2 == Occurrences(body2)
            max_count == Max2(Max2(count1, count2), 1)
        IN /\ EqQ(code_metrics.structure_12,
                  Frac(max_count - Abs(count1 - count2), max_count))
           /\ InUnit(code_metrics.structure_12)
           /\ (count1 = 0 /\ count2 = 0) => EqQ(code_metrics.structure_12, One)
           /\ EqQ(code_metrics.structure_11, One)

\* ------------------------------------------------------------------------
\* Specification of the output metric: the two outputs are drawn by the
\* initial state and _compare_outputs is applied to them
\* ------------------------------------------------------------------------
InitOutputs ==
    /\ RunnerIdle /\ GradeIdle /\ CompareIdle /\ ClassifyIdle
    /\ MetricsIdle /\ OutputsInit /\ ServicesIdle

NextOutputs == CompareOutputs

SpecOutputs == InitOutputs /\ [][NextOutputs]_vars

OutputsCompared == ~Has(output_score, "pending")

\* C15: with both outputs trimmed and lower-cased, the output score is 0.0
\* whenever either of them is then empty (whitespace-only output included),
\* and 1.0 when they are equal and not empty.
C15_OutputsNormalizedThenCompared ==
    OutputsCompared =>
        LET clean1 == Lower(Strip(stdout1))
            clean2 == Lower(Strip(stdout2))
        IN /\ (clean1 = "" \/ clean2 = "") => EqQ(output_score.score, Frac(0, 1))
           /\ (clean1 = clean2 /\ clean1 # "") => EqQ(output_score.score, One)

\* ------------------------------------------------------------------------
\* Specification of the comparison requests: the request is drawn by the
\* initial state and the entry point it names handles it
\* ------------------------------------------------------------------------
InitReports ==
    /\ RunnerIdle /\ GradeIdle /\ CompareIdle /\ ClassifyIdle
    /\ MetricsUnused /\ ReportsInit /\ HintsIdle /\ WorkersIdle /\ TasksIdle

NextReports ==
    \/ manual_check_code
    \/ CallCompare
    \/ CodeAnalyzer_compare_code

SpecReports == InitReports /\ [][NextReports]_vars

Responded == ~Has(response, "pending")

\* the comparisons that cannot be carried out: a blank reference at the
\* /manual-check handler, no reference at compare_code, and a body that makes
\* a metric step raise
CannotCompare ==
    \/ request.entry = "manual_check_code" /\ Strip(request.reference) = ""
    \/ request.entry = "ManualCodeChecker.compare"
       /\ MetricRaises(request.student_code, request.reference)
    \/ request.entry = "CodeAnalyzer.compare_code"
       /\ (request.reference \in {NoneVal, ""} \/ request.student_code = NoneVal)

\* the rows recorded by the request ("earlier" rows were there before it)
RowsRecorded == {i \in DOMAIN manual_checks : manual_checks[i].task_id = "task"}

C17_WeightedSumInUnitInterval ==
    (Responded /\ request.entry = "CodeAnalyzer.compare_code"
        /\ ~Has(response, "error")) =>
        /\ EqQ(response.overall_similarity,
               AddQ(AddQ(MulQ(Frac(3, 10), response.syntax_similarity),
                         MulQ(Frac(4, 10), response.logic_similarity)),
                    MulQ(Frac(3, 10), response.embedding_similarity)))
        /\ InUnit(response.syntax_similarity)
        /\ InUnit(response.logic_similarity)
        /\ InUnit(response.embedding_similarity)
        /\ InUnit(response.overall_similarity)
        /\ GeQ(response.match_percentage, Frac(0, 1))
        /\ GeQ(Frac(100, 1), response.match_percentage)

\* ------------------------------------------------------------------------
\* Specification of the hint service: a database in one of DbStates, the
\* constructor, and up to MaxRequests calls of generate_hint
\* ------------------------------------------------------------------------
InitHints ==
    /\ RunnerIdle /\ GradeIdle /\ CompareIdle /\ ClassifyIdle
    /\ MetricsUnused /\ ReportsIdle /\ HintsInit /\ WorkersIdle /\ TasksIdle

NextHints ==
    \/ RAGService_init
    \/ RAGService_generate_hint

SpecHints == InitHints /\ [][NextHints]_vars

HintAnswered == hint_requests > 0

\* the rows of table that generate_hint stored for the submission req
StoredFor(req, table) ==
    {i \in DOMAIN table :
        table[i] = SolutionRow(req.code, req.error, req.language, NoneVal,
                               table[i].hint)}

\* C18: once generate_hint has stored a record for a submission, a later
\* request with the same code, language and error gets that record as the
\* top-ranked candidate, with score exactly 1.0.
C18_StoredRecordTopRankedScoreOne ==
    [][(hint_requests' = hint_requests + 1
        /\ StoredFor(hint_request', rag_solutions) # {})
       => /\ Has(hint_response', "similar_solutions")
          /\ hint_response'.similar_solutions # <<>>
          /\ hint_response'.similar_solutions[1].id
                 \in StoredFor(hint_request', rag_solutions)
          /\ hint_response'.similar_solutions[1].score = Frac(1, 1)
          /\ hint_response'.similarity_score = Frac(1, 1)]_vars

\* C19: when no stored candidate clears the threshold, or a step of retrieval
\* or storage fails, generate_hint returns (it does not raise) and the hint is
\* the static numbered checklist of the request's language, whatever the
\* error text.
C19_FallbackChecklistOfRequestLanguage ==
    (HintAnswered /\ hint_response.similar_solutions = <<>>) =>
        /\ ~Has(hint_response, "exception")
        /\ hint_response.hint
               = _generate_rule_based_hint(NoneVal, hint_request.language, "")

\* C20: every generate_hint request that is processed successfully appends
\* exactly one record to rag_solutions, after its own search (the search saw
\* only the rows that were there before), and no step changes or removes a
\* row that is there.
C20_OneAppendPerRequestAppendOnly ==
    [][/\ Len(rag_solutions') >= Len(rag_solutions)
       /\ SubSeq(rag_solutions', 1, Len(rag_solutions)) = rag_solutions
       /\ (hint_requests' = hint_requests + 1 /\ hint_response'.rag_used)
          => /\ Len(rag_solutions') = Len(rag_solutions) + 1
             /\ \A k \in DOMAIN hint_response'.similar_solutions :
                    hint_response'.similar_solutions[k].id \in DOMAIN rag_solutions]_vars

\* ------------------------------------------------------------------------
\* Specification of ManualCodeChecker.compare on the summation scenarios
\* ------------------------------------------------------------------------
InitScenarios ==
    /\ RunnerIdle /\ GradeIdle /\ ScenarioInit /\ ClassifyIdle
    /\ MetricsUnused /\ ServicesIdle

NextScenarios == CompareScenario

SpecScenarios == InitScenarios /\ [][NextScenarios]_vars

Graded == ~Has(report, "pending") /\ ~Has(report, "error")
Listed(seq, x) == \E k \in DOMAIN seq : seq[k] = x

\* C22: when the submission iterates over range(1, len(x)+1) and the
\* reference over range(len(x)), the defect list holds the off-by-one defect.
C22_OffByOneFlagged ==
    (Graded /\ Contains(student_code, "range(1, len(numbers)+1)")
        /\ Contains(manual_code, "range(len(numbers))"))
    => Listed(report.errors, "Potential off-by-one error in range")

\* a reference that implements the function with a loop, an accumulator and
\* a return
ImplementsSum(code) ==
    /\ Contains(code, "def sum_list(numbers):")
    /\ Contains(code, "for ") \/ Contains(code, "while ")
    /\ Contains(code, "total += ")
    /\ Contains(code, "return total")

\* C23: for the python placeholder submission def sum_list(numbers): pass
\* against a reference that implements the function with a loop, an
\* accumulator and a return, the defect list holds the placeholder defect and
\* the grade is D or F.
C23_PlaceholderFlaggedGradeAtMostD ==
    (Graded /\ student_code = Placeholder /\ ImplementsSum(manual_code)
        /\ cmp_language = "python")
    => /\ Listed(report.errors, "Function not implemented (using 'pass')")
       /\ report.grade \in {"D", "F"}

C23_Witness ==
    /\ Graded /\ student_code = Placeholder /\ manual_code = SumReference
    /\ cmp_language = "python"
    /\ report.student_execution.success
    /\ Listed(report.errors, "Function not implemented (using 'pass')")
    /\ ~Listed(report.errors, "Missing function definition")
    /\ report.grade = "F"

\* the line of a body at a position, "" past its end
PaddedLine(code, i) ==
    IF i <= Len(SplitLines(code)) THEN SplitLines(code)[i] ELSE ""
Mismatched(i) == PaddedLine(student_code, i) # PaddedLine(manual_code, i)
Positions == 1..Max2(Len(SplitLines(student_code)), Len(SplitLines(manual_code)))

\* C26: code_differences holds the first at most 20 positions at which the
\* two bodies, the shorter padded with empty lines, differ, in ascending
\* order; each is tagged different when both lines are non-empty, missing
\* when the submission's line is empty, extra when the reference's line is
\* empty; no position with equal lines is listed.
C26_FirstTwentyMismatchesTagged ==
    Graded =>
        LET diffs == report.code_differences
        IN /\ Len(diffs) <= 20
           /\ \A k \in DOMAIN diffs :
                 /\ diffs[k].line \in Positions
                 /\ Mismatched(diffs[k].line)
                 /\ diffs[k].student = PaddedLine(student_code, diffs[k].line)
                 /\ diffs[k].manual = PaddedLine(manual_code, diffs[k].line)
                 /\ k > 1 => diffs[k - 1].line < diffs[k].line
                 /\ diffs[k].type = "different"
                        <=> (diffs[k].student # "" /\ diffs[k].manual # "")
                 /\ diffs[k].type = "missing" <=> diffs[k].student = ""
                 /\ diffs[k].type = "extra"
                        <=> (diffs[k].student # "" /\ diffs[k].manual = "")
           /\ \A i \in Positions :
                 Mismatched(i) =>
                    \/ \E k \in DOMAIN diffs : diffs[k].line = i
                    \/ Len(diffs) = 20 /\ i > diffs[20].line

\* 22 mismatched positions, 20 listed, the last ones extra
C26_Witness ==
    /\ Graded
    /\ Cardinality({i \in Positions : Mismatched(i)}) > 20
    /\ Len(report.code_differences) = 20
    /\ report.code_differences[1].type = "different"
    /\ report.code_differences[20].type = "extra"

\* C27: in every report the grade is the one the thresholds give for the
\* reported overall_score (rounded to two decimals).
C27_GradeAgreesWithReportedScore ==
    Graded => report.grade = ManualCodeChecker_calculate_grade(report.overall_score)

\* C28: for a language other than python compare executes neither body,
\* output_match is 0.0 and the grade is never A or B, also for two identical
\* bodies.
C28_NotPythonNeverAorB ==
    (Reported /\ ~Has(report, "error") /\ cmp_language # "python")
    => /\ ~report.student_execution.success
       /\ ~report.manual_execution.success
       /\ report.student_execution.output = ""
       /\ report.manual_execution.output = ""
       /\ report.output_match = Frac(0, 1)
       /\ report.grade \notin {"A", "B"}

C28_Witness ==
    /\ Reported /\ ~Has(report, "error")
    /\ cmp_language = "java"
    /\ student_code = manual_code /\ student_code # ""
    /\ report.syntax_match = Frac(1, 1)
    /\ report.structure_match = Frac(1, 1)
    /\ report.output_match = Frac(0, 1)

\* a normalised output that consists of numeric tokens and blanks only
OnlyNumeric(clean) ==
    /\ CharsOf(clean) \subseteq CharsOf(Digits) \cup {"."} \cup Whitespace
    /\ NumericTokens(clean) # <<>>

\* C24: _compare_outputs returns 0.8 only when the two normalised outputs
\* differ, both consist of numeric tokens only and the token sequences are
\* equal; when either output holds non-numeric text and the outputs are not
\* empty or equal, the score is the sequence-similarity ratio.
C24_PartialCreditOnlyForNumericOutputs ==
    OutputsCompared =>
        LET clean1 == Lower(Strip(stdout1))
            clean2 == Lower(Strip(stdout2))
        IN /\ EqQ(output_score.score, Frac(8, 10))
                => /\ clean1 # clean2
                   /\ OnlyNumeric(clean1) /\ OnlyNumeric(clean2)
                   /\ NumericTokens(clean1) = NumericTokens(clean2)
           /\ (stdout1 # "" /\ stdout2 # "" /\ clean1 # clean2
                  /\ (~OnlyNumeric(clean1) \/ ~OnlyNumeric(clean2)))
                => EqQ(output_score.score, SequenceRatio(clean1, clean2))

\* ------------------------------------------------------------------------
\* Specification of two concurrent generate_hint calls on one database
\* ------------------------------------------------------------------------
InitWorkers ==
    /\ RunnerIdle /\ GradeIdle /\ CompareIdle /\ ClassifyIdle
    /\ MetricsUnused /\ ReportsIdle /\ HintsInit /\ WorkersInit /\ TasksIdle

NextWorkers ==
    \E w \in Workers :
        \/ Search(w)
        \/ SearchWaits(w)
        \/ SearchTimesOut(w)
        \/ Insert(w)
        \/ InsertTimesOut(w)
        \/ BeginCommit(w)
        \/ EndCommit(w)

SpecWorkers == InitWorkers /\ [][NextWorkers]_vars

AllReturned == \A w \in Workers : workers[w].pc = "done"

\* C21: when two generate_hint calls run at the same time on one corpus
\* (a database that holds the tables and can be written), both return a
\* hint, the corpus afterwards holds the record of each of them, and no
\* search had to wait for the other call's append.
C21_ConcurrentCallsBothStoredNoneWaits ==
    db_state = "ready" =>
    /\ \A w \in Workers : ~workers[w].waited
    /\ AllReturned =>
          \A w \in Workers :
              /\ workers[w].response.hint # ""
              /\ \E i \in DOMAIN rag_solutions :
                    /\ rag_solutions[i].code = workers[w].code
                    /\ rag_solutions[i].hint = Prefix(workers[w].response.hint, 500)
              /\ Len(rag_solutions) >= Cardinality(Workers)

\* ------------------------------------------------------------------------
\* Specification of the lab_tasks handlers: uploads and deletions in any
\* order
\* ------------------------------------------------------------------------
InitTasks ==
    /\ RunnerIdle /\ GradeIdle /\ CompareIdle /\ ClassifyIdle
    /\ MetricsUnused /\ ReportsIdle /\ HintsIdle /\ WorkersIdle /\ TasksInit

NextTasks ==
    \/ upload_manual_solution
    \/ delete_manual

SpecTasks == InitTasks /\ [][NextTasks]_vars

\* C29: after any sequence of uploads and deletions every seeded task is
\* still in lab_tasks, and a delete-manual request for a seeded task is
\* answered 404.
C29_SeededTasksSurvive ==
    /\ SeededIds \subseteq DOMAIN lab_tasks
    /\ (~Has(task_response, "pending") /\ task_response.op = "delete"
           /\ task_response.task_id \in SeededIds)
          => task_response.status = 404

\* ------------------------------------------------------------------------
\* Specification of one generate_hint call on a corpus of stored rows
\* ------------------------------------------------------------------------
InitCorpus ==
    /\ RunnerIdle /\ GradeIdle /\ CompareIdle /\ ClassifyIdle
    /\ MetricsUnused /\ ReportsIdle /\ CorpusInit /\ WorkersIdle /\ TasksIdle

NextCorpus == generate_hint_on_corpus

SpecCorpus == InitCorpus /\ [][NextCorpus]_vars

\* the corpus the answered call searched: the table without the row the
\* call appended
SearchedTable ==
    IF hint_response.rag_used
    THEN SubSeq(rag_solutions, 1, Len(rag_solutions) - 1) ELSE rag_solutions

AskedPatterns == _extract_patterns(hint_request.code, hint_request.language)

\* every list of candidates the search of the answered call can have returned
Candidates ==
    {_search_by_patterns(AskedPatterns, first3, hint_request.language, NoneVal,
                         hint_request.error, db_state, SearchedTable, same_second) :
        first3 \in FirstThree(AskedPatterns), same_second \in BOOLEAN}

\* the score the claim gives a stored code: the patterns found in it,
\* function definitions twice, over the number of patterns
ClaimedScore(patterns, code) ==
    LET found == {q \in patterns : Contains(code, pattern_condition(q))}
        defs == {q \in found : StartsWith(q, "function_def:")}
    IN Frac(Cardinality(found) + Cardinality(defs), Cardinality(patterns))

C30_SameAnswerWhateverThePatternOrder ==
    HintAnswered =>
        \A same_second \in BOOLEAN :
           \A a, b \in FirstThree(AskedPatterns) :
              generate_hint(hint_request.code, hint_request.error,
                            hint_request.language, NoneVal, a, db_state,
                            SearchedTable, same_second).result
              = generate_hint(hint_request.code, hint_request.error,
                              hint_request.language, NoneVal, b, db_state,
                              SearchedTable, same_second).result
====
